---- MODULE Spec2Model ----
(***************************************************************************)
(* A model of the speech-to-text evaluation harness: the six transcription *)
(* engines behind BaseModel.transcribe (src/models/), and the dataset      *)
(* runner process_dataset with save_result and calculate_metrics           *)
(* (src/transcribe.py, src/utils.py).                                      *)
(*                                                                         *)
(* Texts are sequences of one-character strings.  A result dict is a       *)
(* record; a key is present iff it is in the record's DOMAIN.  str(e) and  *)
(* f-strings are sequences of string fragments.                            *)
(***************************************************************************)
EXTENDS Integers, Sequences, FiniteSets, TLC

VARIABLES
    \* ---- one engine instance and one call of its transcribe ----
    engine,          \* BaseModel.name of the instance
    cfg_key,         \* config.get('api_key')
    env_key,         \* the engine's environment variable
    gcloud,          \* whether `gcloud auth print-access-token` yields a token
    api_key,         \* self.api_key
    loaded,          \* load() has run (clients / model handles are set)
    epc,             \* position inside transcribe
    bucket_name,     \* AWS transcribe: local bucket_name
    audio_key,       \* AWS transcribe: local audio_key
    uploaded,        \* AWS: upload_file succeeded in this call
    cleanup,         \* AWS: delete_object was attempted in this call
    submitted,       \* the job was created
    retry,           \* Salad: the for-loop counter
    queries,         \* number of status queries issued in this call
    query_failed,    \* a status query of this call got a non-200 response
    terminal,        \* job state reached: none, Completed, Failed, TimedOut
    job_status,      \* the last status response kept by the loop
    result,          \* what transcribe returned
    failure,         \* what went wrong in this call: the exception raised in
                     \* the try block (msg is str(e)), or the failed response
                     \* that made transcribe return early
    raised,          \* an exception left transcribe
    load_raised,     \* load() raised
    cfg_output_bucket,   \* config.get('output_bucket_name') (AWS)
    output_bucket_name,  \* self.output_bucket_name (AWS)
    \* ---- one call of process_dataset ----
    audio_files,     \* list_files_in_s3(..., audio extensions): the keys, in order
    have_transcripts,\* list_files_in_s3(..., '.trans.txt') is not empty
    transcript_dict, \* file id -> lower-cased reference transcript
    rpc,             \* position inside process_dataset
    idx,             \* position of the for-loop in audio_files
    total_duration,  \* the running total of audio seconds
    item_result,     \* the local `result` of the item in hand
    results,         \* the list the metrics are computed from
    csv,             \* results.csv, line by line
    json_files,      \* <file_id>.json: file id -> the dict dumped last
    summary,         \* metrics.json, once written
    hist,            \* per position of audio_files, what has been done with it
    \* ---- one run of main ----
    mpc,             \* position inside main
    model_name,      \* args.model
    test_set,        \* args.test_set
    init_error,      \* the exception get_model or load() raised, if any
    listed,          \* the test sets whose files have been listed, in order
    main_results,    \* main's `results`: test set and its metrics, in order
    overall,         \* <model>_overall_metrics.json, once written
    \* ---- the aggregators, called on a list of item results ----
    agg_results,     \* the list of result dicts handed over
    agg_metrics,     \* what utils.calculate_metrics returned
    eval_summary,    \* the file evaluate.save_summary wrote
    eval_raised,     \* evaluate.save_summary raised
    \* ---- save_result, called on its own ----
    sr_ground_truth, \* the argument ground_truth
    sr_result,       \* the argument result, a dict the call changes in place
    sr_pc,           \* position: idle, call, saved, raised
    \* ---- the duration accounting of process_dataset, over floats ----
    dur_outcomes,    \* per audio file: whether the probe succeeds, its duration
    dur_idx,         \* index of the file the loop is at
    dur_total,       \* total_duration, a float
    dur_pc,          \* position: idle, loop, probe, done
    \* ---- evaluate.py, the standalone evaluator ----
    references,      \* file id and reference text, in the order of the dict
    hypotheses,      \* file id -> hypothesis text
    ev_results,      \* what evaluate.calculate_metrics returned
    ev_summary,      \* the summary save_summary wrote
    ev_pc,           \* position: idle, loaded, scored, saved
    \* ---- DolphinModel.clean_hypothesis_text, called on its own ----
    ct_text,         \* the argument
    ct_once,         \* clean_hypothesis_text(text)
    ct_twice,        \* clean_hypothesis_text of that
    ct_pc            \* position: idle, call, once, twice

evars == <<engine, cfg_key, env_key, gcloud, api_key, loaded, epc, bucket_name,
           audio_key, uploaded, cleanup, submitted, retry, queries, query_failed, terminal,
           job_status, result, failure, raised,
           load_raised, cfg_output_bucket, output_bucket_name>>

rvars == <<audio_files, have_transcripts, transcript_dict, rpc, idx,
           total_duration, item_result, results, csv, json_files, summary, hist>>

mvars == <<mpc, model_name, test_set, init_error, listed, main_results, overall>>

dvars == <<dur_outcomes, dur_idx, dur_total, dur_pc>>

qvars == <<references, hypotheses, ev_results, ev_summary, ev_pc>>

cvars == <<ct_text, ct_once, ct_twice, ct_pc>>

xvars == <<dvars, qvars, cvars>>

avars == <<agg_results, agg_metrics, eval_summary, eval_raised,
           sr_ground_truth, sr_result, sr_pc, xvars>>

vars == <<evars, rvars, mvars, avars>>

----------------------------------------------------------------------------
(* Bounds of the model *)

\* AWS polls in `while True`; the model stops issuing queries here.
QueryCap == 61

\* The longest list of audio keys a dataset holds.
MaxItems == 3

\* The significant bits a float keeps (a Python float keeps 53).
MantissaBits == 3

\* The longest list of item results handed to an aggregator on its own.
MaxResults == 3

\* The longest text handed to save_result on its own, the examples aside.
MaxText == 3

\* The longest list of audio files of the duration accounting on its own.
MaxProbes == 3

\* The largest number of reference transcripts handed to the evaluator.
MaxRefs == 3

\* The longest text handed to clean_hypothesis_text on its own.
MaxClean == 7

(* Program constants *)

\* salad_model.py: max_retries = 60
max_retries == 60

----------------------------------------------------------------------------
(* Values *)

None == "None"

Engines == {"dolphin", "whisper", "google", "aws", "salad", "deepgram"}
AsyncEngines == {"aws", "salad"}

\* The text a backend can produce for an audio file.
BackendTexts == { <<>>, <<"H", "i">>, <<"<", "e", ">", "o", "k">> }

LowerChar(c) ==
    CASE c = "H" -> "h"
      [] c = "A" -> "a"
      [] c = "B" -> "b"
      [] OTHER -> c

\* str.lower()
Lower(s) == [i \in 1..Len(s) |-> LowerChar(s[i])]

IsSpace(c) == c = " "

RECURSIVE LStrip(_)
LStrip(s) == IF s # <<>> /\ IsSpace(Head(s)) THEN LStrip(Tail(s)) ELSE s

RECURSIVE RStrip(_)
RStrip(s) ==
    IF s # <<>> /\ IsSpace(s[Len(s)]) THEN RStrip(SubSeq(s, 1, Len(s) - 1)) ELSE s

\* str.strip()
Strip(s) == RStrip(LStrip(s))

\* Index of the first ">" of s at or after position i, 0 when there is none.
RECURSIVE NextClose(_, _)
NextClose(s, i) ==
    IF i > Len(s) THEN 0
    ELSE IF s[i] = ">" THEN i
    ELSE NextClose(s, i + 1)

\* re.sub(r'<[^>]+>', '', s): leftmost non-overlapping matches, scanning from i.
RECURSIVE SubTags(_, _)
SubTags(s, i) ==
    IF i > Len(s) THEN <<>>
    ELSE LET j == NextClose(s, i + 1)
         IN  IF s[i] = "<" /\ j > i + 1
             THEN SubTags(s, j + 1)
             ELSE <<s[i]>> \o SubTags(s, i + 1)

\* The blanks stripped before the tags are removed, not after
clean_hypothesis_text_stripFirst(text) == SubTags(Strip(text), 1)

\* re.sub(r'<[^>]+>', '', text).strip()
clean_hypothesis_text(text) == Strip(SubTags(text, 1))

\* Nothing has gone wrong in this call.
NoFailure == [raised |-> FALSE, msg |-> <<>>]

\* The placeholder held by `result` while transcribe has not returned.
NoResult == [pending |-> TRUE]

HasKey(r, k) == k \in DOMAIN r

----------------------------------------------------------------------------
(* process_dataset: the inputs *)

\* OUTPUT_CONFIG['max_audio_duration']
max_audio_duration == 10 * 3600

\* The S3 key of the i-th audio file of a listing of distinct files.
AudioKey(i) == [dir |-> "librispeech/test-clean", stem |-> i, ext |-> ".flac"]

\* os.path.splitext(os.path.basename(audio_file_key))[0]
FileId(key) == key.stem

\* A reference transcript as build_transcript_dict stores it (lower-cased).
Reference == Lower(<<"A", " ", "b">>)

\* The durations get_audio_duration may report, in seconds.
Durations == {4 * 3600, 6 * 3600}

\* What a model's transcribe may hand to the runner: a transcript (equal to
\* the reference up to case, or one word short), with or without a
\* confidence; the engines' error dict; a dict that holds an error alone.
StubResults ==
    { [text |-> <<"A", " ", "b">>],
      [text |-> <<"a">>, confidence |-> 1],
      [text |-> <<>>, error |-> <<"boom">>],
      [error |-> <<"boom">>] }

\* Nothing done yet with an item.
Untouched ==
    [reached |-> FALSE, skipped |-> FALSE, downloaded |-> FALSE, dur |-> -1,
     transcribed |-> FALSE, returned |-> NoResult, wrote_json |-> FALSE,
     wrote_csv |-> FALSE, raised |-> FALSE]

NoSummary == [pending |-> TRUE]

Header == <<"file_id", "ground_truth", "hypothesis", "wer", "cer">>

\* No engine call is being modelled: the runner's model is a stub.
EngineIdle ==
    /\ engine = "stub"
    /\ cfg_key = None
    /\ env_key = None
    /\ gcloud = FALSE
    /\ api_key = None
    /\ loaded = TRUE
    /\ load_raised = FALSE
    /\ cfg_output_bucket = None
    /\ output_bucket_name = None
    /\ epc = "idle"
    /\ bucket_name = None
    /\ audio_key = None
    /\ uploaded = FALSE
    /\ cleanup = FALSE
    /\ submitted = FALSE
    /\ retry = 0
    /\ queries = 0
    /\ query_failed = FALSE
    /\ terminal = "none"
    /\ job_status = NoResult
    /\ result = NoResult
    /\ failure = NoFailure
    /\ raised = FALSE

\* save_result is not being called on its own.
\* The duration accounting is not being modelled on its own.
DurIdle ==
    /\ dur_outcomes = <<>>
    /\ dur_idx = 1
    /\ dur_total = <<0, 1>>
    /\ dur_pc = "idle"

\* evaluate.py is not being run.
EvalIdle ==
    /\ references = <<>>
    /\ hypotheses = <<>>
    /\ ev_results = <<>>
    /\ ev_summary = [pending |-> TRUE]
    /\ ev_pc = "idle"

\* clean_hypothesis_text is not being called on its own.
CleanIdle ==
    /\ ct_text = <<>>
    /\ ct_once = <<>>
    /\ ct_twice = <<>>
    /\ ct_pc = "idle"

ExtraIdle == DurIdle /\ EvalIdle /\ CleanIdle

ScoreIdle ==
    /\ sr_ground_truth = None
    /\ sr_result = NoResult
    /\ sr_pc = "idle"

\* No aggregator and no save_result is being called on its own.
AggIdle ==
    /\ agg_results = <<>>
    /\ agg_metrics = NoSummary
    /\ eval_summary = NoSummary
    /\ eval_raised = FALSE
    /\ ScoreIdle

\* main is not being run.
MainIdle ==
    /\ mpc = "idle"
    /\ model_name = None
    /\ test_set = None
    /\ init_error = NoFailure
    /\ listed = <<>>
    /\ main_results = <<>>
    /\ overall = NoSummary

RunnerStart ==
    /\ rpc = "start"
    /\ idx = 1
    /\ total_duration = 0
    /\ item_result = NoResult
    /\ results = <<>>
    /\ csv = <<>>
    /\ json_files = <<>>
    /\ summary = NoSummary
    /\ hist = [i \in 1..Len(audio_files) |-> Untouched]

\* A dataset of up to MaxItems distinct audio files, some with a reference.
RunnerInit ==
    /\ ExtraIdle
    /\ \E n \in 0..MaxItems : audio_files = [i \in 1..n |-> AudioKey(i)]
    /\ have_transcripts \in BOOLEAN
    /\ \E ids \in SUBSET {FileId(audio_files[i]) : i \in 1..Len(audio_files)} :
         /\ ids # {} => have_transcripts
         /\ transcript_dict = [f \in ids |-> Reference]
    /\ RunnerStart
    /\ EngineIdle
    /\ MainIdle
    /\ AggIdle

\* No dataset is being processed.
NoDataset ==
    /\ audio_files = <<>>
    /\ have_transcripts = FALSE
    /\ transcript_dict = <<>>
    /\ rpc = "idle"
    /\ idx = 1
    /\ total_duration = 0
    /\ item_result = NoResult
    /\ results = <<>>
    /\ csv = <<>>
    /\ json_files = <<>>
    /\ summary = NoSummary
    /\ hist = <<>>

RunnerIdle == NoDataset /\ MainIdle /\ AggIdle

----------------------------------------------------------------------------
(* Engines: construction and load *)

EnvEngines == {"google", "salad", "deepgram"}

\* os.environ.get(<ENGINE>_API_KEY, config.get('api_key'))
ResolveApiKey(e, env, cfg) ==
    IF e \in EnvEngines THEN (IF env # None THEN env ELSE cfg) ELSE None

EngineInit ==
    /\ ExtraIdle
    /\ engine \in Engines
    /\ cfg_key \in {None, "cfg-key"}
    /\ env_key \in {None, "env-key"}
    /\ gcloud \in BOOLEAN
    /\ api_key = ResolveApiKey(engine, env_key, cfg_key)
    /\ loaded = FALSE
    /\ load_raised = FALSE
    /\ cfg_output_bucket \in (IF engine = "aws" THEN {None, "cfg-bucket"} ELSE {None})
    /\ output_bucket_name = cfg_output_bucket
    /\ epc = "idle"
    /\ bucket_name = None
    /\ audio_key = None
    /\ uploaded = FALSE
    /\ cleanup = FALSE
    /\ submitted = FALSE
    /\ retry = 0
    /\ queries = 0
    /\ query_failed = FALSE
    /\ terminal = "none"
    /\ job_status = NoResult
    /\ result = NoResult
    /\ failure = NoFailure
    /\ raised = FALSE
    /\ RunnerIdle

\* Whether load() raises for want of a credential.
LoadNeedsKey(e) == e \in {"salad", "deepgram"}

\* load() can return normally.
LoadCanSucceed == LoadNeedsKey(engine) => api_key # None

\* load() can raise.
LoadCanRaise ==
    \/ LoadNeedsKey(engine) /\ api_key = None
    \/ engine \in {"dolphin", "whisper", "aws", "deepgram"}

\* load(): local engines and AWS may fail on the device, the weights or the
\* client; Salad and Deepgram raise ValueError without an api_key; Google
\* only prints a warning.
Load ==
    /\ epc = "idle"
    /\ ~loaded
    /\ ~load_raised
    /\ \/ /\ LoadCanSucceed
          /\ loaded' = TRUE
          /\ UNCHANGED load_raised
       \/ /\ LoadCanRaise
          /\ load_raised' = TRUE
          /\ UNCHANGED loaded
    /\ UNCHANGED <<engine, cfg_key, env_key, gcloud, api_key, epc, bucket_name,
                   audio_key, uploaded, cleanup, submitted, retry, queries, query_failed,
                   terminal, job_status, result, failure, raised, rvars,
                   mvars, avars,
                   cfg_output_bucket, output_bucket_name>>

----------------------------------------------------------------------------
(* transcribe: what every variant shares *)

\* The dict of each engine's `except Exception as e` clause.
ExceptResult(e) == [text |-> <<>>, error |-> e]

\* return r
Return(r) ==
    /\ result' = r
    /\ epc' = "returned"
    /\ UNCHANGED <<failure, raised>>

\* A statement of the try block raises e: control passes to the except clause.
Raise(e) ==
    /\ failure' = [raised |-> TRUE, msg |-> e]
    /\ epc' = "except"
    /\ UNCHANGED <<result, raised>>

\* An early `return r` taken because the response `why` reports a failure.
ReturnFailure(why, r) ==
    /\ failure' = [raised |-> FALSE, msg |-> why]
    /\ result' = r
    /\ epc' = "returned"
    /\ UNCHANGED raised

\* Variant of OnException: the clause lets the exception out to the caller.
OnException_reraise(e) ==
    /\ raised' = TRUE
    /\ epc' = "returned"
    /\ UNCHANGED <<result, failure>>

\* except Exception as e: return {'text': '', 'error': str(e)}
OnException(e) == Return(ExceptResult(e))

\* The except clause that ends every engine's transcribe.
Except ==
    /\ epc = "except"
    /\ OnException(failure.msg)
    /\ UNCHANGED <<engine, cfg_key, env_key, gcloud, api_key, loaded, load_raised,
                   bucket_name, audio_key, uploaded, cleanup, submitted, retry,
                   queries, query_failed, terminal, job_status, rvars, mvars, avars,
                   cfg_output_bucket, output_bucket_name>>

FirstStep(e) ==
    CASE e = "dolphin"  -> "d_audio"
      [] e = "whisper"  -> "w_pipe"
      [] e = "google"   -> "g_token"
      [] e = "aws"      -> "a_upload"
      [] e = "salad"    -> "s_submit"
      [] e = "deepgram" -> "dg_read"

\* The caller enters transcribe(audio_path[, bucket_name, audio_key]).
Call ==
    /\ epc = "idle"
    /\ epc' = FirstStep(engine)
    /\ IF engine = "aws"
       THEN /\ bucket_name' \in {None, "caller-bucket"}
            /\ audio_key' \in {None, "caller-key"}
       ELSE UNCHANGED <<bucket_name, audio_key>>
    /\ UNCHANGED <<engine, cfg_key, env_key, gcloud, api_key, loaded, load_raised,
                   uploaded, cleanup, submitted, retry, queries, query_failed, terminal,
                   job_status, result, failure, raised, rvars, mvars, avars,
                   cfg_output_bucket, output_bucket_name>>

EngineFrame ==
    UNCHANGED <<engine, cfg_key, env_key, gcloud, api_key, loaded, load_raised,
                rvars, mvars, avars,
                   cfg_output_bucket, output_bucket_name>>

----------------------------------------------------------------------------
(* Local-inference variants *)

\* dolphin.load_audio(audio_path)
DolphinLoadAudio ==
    /\ epc = "d_audio"
    /\ \/ Raise(<<"cannot read audio">>)
       \/ /\ epc' = "d_infer"
          /\ UNCHANGED <<result, failure, raised>>
    /\ EngineFrame
    /\ UNCHANGED <<bucket_name, audio_key, uploaded, cleanup, submitted, retry,
                   queries, query_failed, terminal, job_status>>

\* self.model(waveform, ...), lower(), clean_hypothesis_text, return
DolphinInfer ==
    /\ epc = "d_infer"
    /\ IF ~loaded
       THEN Raise(<<"'NoneType' object is not callable">>)
       ELSE \/ Raise(<<"inference failed">>)
            \/ \E raw \in BackendTexts :
                 LET hypothesis == Lower(raw)
                 IN  Return([raw_text |-> hypothesis,
                             text |-> clean_hypothesis_text(hypothesis)])
    /\ EngineFrame
    /\ UNCHANGED <<bucket_name, audio_key, uploaded, cleanup, submitted, retry,
                   queries, query_failed, terminal, job_status>>

\* self.pipe(audio_path), result.get('text', ''), chunks, return
WhisperTranscribe ==
    /\ epc = "w_pipe"
    /\ IF ~loaded
       THEN Raise(<<"'NoneType' object is not callable">>)
       ELSE \/ Raise(<<"cannot read audio">>)
            \/ \E raw \in BackendTexts :
                 Return([text |-> raw, chunks |-> "chunks"])
    /\ EngineFrame
    /\ UNCHANGED <<bucket_name, audio_key, uploaded, cleanup, submitted, retry,
                   queries, query_failed, terminal, job_status>>

----------------------------------------------------------------------------
(* Synchronous-REST variants *)

AsyncFrame ==
    UNCHANGED <<bucket_name, audio_key, uploaded, cleanup, submitted, retry,
                queries, query_failed, terminal, job_status>>

\* GoogleModel._get_access_token: the api_key, else the gcloud token, else None
\* (an empty gcloud output is as falsy as None).
GetAccessToken == IF api_key # None THEN api_key
                  ELSE IF gcloud THEN "gcloud-token" ELSE None

\* access_token = self._get_access_token(); if not access_token: return {...}
GoogleToken ==
    /\ epc = "g_token"
    /\ IF GetAccessToken = None
       THEN ReturnFailure(<<"no access token">>,
                         [error |-> <<"Failed to get access token">>, text |-> <<>>])
       ELSE /\ epc' = "g_request"
            /\ UNCHANGED <<result, failure, raised>>
    /\ EngineFrame
    /\ AsyncFrame

\* Variant of GoogleHttpError: the dict carries the error alone.
GoogleHttpError_noText(body) == [error |-> body]

\* The dict Google returns for a non-200 response.
GoogleHttpError(body) == [error |-> body, text |-> <<>>]

\* open(audio_path).read(), requests.post(...), the status check
GoogleRequest ==
    /\ epc = "g_request"
    /\ \/ Raise(<<"cannot read audio">>)
       \/ Raise(<<"connection error">>)
       \/ \E body \in { <<>>, <<"quota exceeded">> } :
            ReturnFailure(<<"non-200 response">>, GoogleHttpError(body))
       \/ /\ epc' = "g_parse"
          /\ UNCHANGED <<result, failure, raised>>
    /\ EngineFrame
    /\ AsyncFrame

\* response.json(), the transcript of each result joined with " ", strip()
GoogleParse ==
    /\ epc = "g_parse"
    /\ \/ Raise(<<"invalid json">>)
       \/ Raise(<<"KeyError: 'transcript'">>)
       \/ Return([text |-> <<>>, confidence |-> 0, chunks |-> "chunks",
                  raw_response |-> "response"])
       \/ \E raw \in BackendTexts :
            Return([text |-> Strip(raw \o <<" ">>), confidence |-> 1,
                    chunks |-> "chunks", raw_response |-> "response"])
    /\ EngineFrame
    /\ AsyncFrame

\* open(audio_path).read()
DeepgramRead ==
    /\ epc = "dg_read"
    /\ \/ Raise(<<"cannot read audio">>)
       \/ /\ epc' = "dg_request"
          /\ UNCHANGED <<result, failure, raised>>
    /\ EngineFrame
    /\ AsyncFrame

\* self.client.listen.rest.v("1").transcribe_file(...), the parse, return
DeepgramRequest ==
    /\ epc = "dg_request"
    /\ IF ~loaded
       THEN Raise(<<"'NoneType' object has no attribute 'listen'">>)
       ELSE \/ Raise(<<"api error">>)
            \/ Raise(<<"KeyError: 'results'">>)
            \/ \E raw \in BackendTexts :
                 Return([text |-> raw, chunks |-> "chunks", confidence |-> 1])
    /\ EngineFrame
    /\ AsyncFrame

----------------------------------------------------------------------------
(* Async-job-polling variant: Salad *)

\* What a job may report as its failure reason (None: the key is absent).
Reasons == {None, "bad audio"}

\* str.lower() of the status words the API may send.
LowerStatus(st) ==
    CASE st = "Succeeded" -> "succeeded"
      [] st = "FAILED"    -> "failed"
      [] OTHER            -> st

\* The bodies a 200 status response may carry.
SaladBodies ==
    {[status |-> st] : st \in {"pending", "running", "", "completed"}}
      \cup {[text |-> t] : t \in BackendTexts}
      \cup {[status |-> st, text |-> t] :
              st \in {"Succeeded", "completed"}, t \in BackendTexts}
      \cup {[status |-> st] : st \in {"FAILED", "error"}}
      \cup {[status |-> st, error |-> r] :
              st \in {"FAILED", "error"}, r \in Reasons \ {None}}

\* What _get_job_status returns for a non-200 response.
JsonNone == [none |-> TRUE]

\* dict.get(key, default)
Get(d, k, default) == IF k \in DOMAIN d THEN d[k] ELSE default

\* _submit_transcription_job, then `if not job_response or 'id' not in ...`
SaladSubmit ==
    /\ epc = "s_submit"
    /\ \/ /\ Raise(<<"connection error">>)
          /\ UNCHANGED <<submitted>>
       \/ /\ ReturnFailure(<<"non-200 response">>,
                            [text |-> <<>>,
                             error |-> <<"Failed to submit transcription job">>])
          /\ UNCHANGED <<submitted>>
       \/ /\ submitted' = TRUE
          /\ epc' = "s_poll"
          /\ UNCHANGED <<result, failure, raised>>
    /\ EngineFrame
    /\ UNCHANGED <<bucket_name, audio_key, uploaded, cleanup, retry, queries, query_failed,
                   terminal, job_status>>

\* Variant of SaladFailed: the job's own error message is dropped.
SaladFailed_noReason(js) == [text |-> <<>>, error |-> <<"Job failed">>]

\* The dict Salad returns when the job reports failure.
SaladFailed(js) ==
    [text |-> <<>>, error |-> <<"Job failed: ", Get(js, "error", "Unknown error")>>]

\* The for-loop's else clause.
SaladTimedOut == [text |-> <<>>, error |-> <<"Job timed out">>]

\* Variant of SaladNextPass: the loop allows itself one pass more.
SaladNextPass_oneMore ==
    IF retry + 1 <= max_retries
    THEN /\ epc' = "s_poll"
         /\ UNCHANGED <<result, failure, raised, terminal>>
    ELSE /\ terminal' = "TimedOut"
         /\ ReturnFailure(<<"attempts exhausted">>, SaladTimedOut)

\* A pass of the loop that ends in sleep / continue: the next pass, or the
\* else clause once range(max_retries) is exhausted.
SaladNextPass ==
    IF retry + 1 < max_retries
    THEN /\ epc' = "s_poll"
         /\ UNCHANGED <<result, failure, raised, terminal>>
    ELSE /\ terminal' = "TimedOut"
         /\ ReturnFailure(<<"attempts exhausted">>, SaladTimedOut)

\* Variant of SaladOnFailed: the loop notes the failure and keeps polling.
SaladOnFailed_pollOn(js) ==
    /\ terminal' = "Failed"
    /\ epc' = "s_poll"
    /\ UNCHANGED <<result, failure, raised>>

\* The job reported failure.
SaladOnFailed(js) ==
    /\ terminal' = "Failed"
    /\ ReturnFailure(<<"job failed">>, SaladFailed(js))

\* One pass of `for retry in range(max_retries)`.
SaladPoll ==
    /\ epc = "s_poll"
    /\ retry < max_retries
    /\ retry' = retry + 1
    /\ queries' = queries + 1
    /\ \/ /\ Raise(<<"connection error">>)
          /\ UNCHANGED <<terminal, job_status, query_failed>>
       \/ \* non-200 (_get_job_status returns None) or an empty body: falsy
          /\ job_status' = JsonNone
          /\ query_failed' = TRUE
          /\ SaladNextPass
       \/ \* a status that is not a string has no lower()
          /\ job_status' = [status |-> 0]
          /\ Raise(<<"object has no attribute 'lower'">>)
          /\ UNCHANGED <<terminal, query_failed>>
       \/ \E js \in SaladBodies :
            LET status == LowerStatus(Get(js, "status", ""))
            IN  /\ job_status' = js
                /\ UNCHANGED query_failed
                /\ IF status \in {"succeeded", "completed"}
                   THEN /\ terminal' = "Completed"
                        /\ epc' = "s_extract"
                        /\ UNCHANGED <<result, failure, raised>>
                   ELSE IF status \in {"failed", "error"}
                   THEN SaladOnFailed(js)
                   ELSE SaladNextPass
    /\ EngineFrame
    /\ UNCHANGED <<bucket_name, audio_key, uploaded, cleanup, submitted>>

\* text = job_status.get('text', ''), the word list, return
SaladExtract ==
    /\ epc = "s_extract"
    /\ \/ Raise(<<"object has no attribute 'get'">>)
       \/ Return([text |-> Get(job_status, "text", <<>>), chunks |-> "chunks",
                  job_id |-> "job"])
    /\ EngineFrame
    /\ AsyncFrame

----------------------------------------------------------------------------
(* Async-job-polling variant: AWS Transcribe *)

\* self.output_bucket_name = bucket_name, reached unless the upload raised
OutputBucketAfter(pc, bucket) ==
    IF pc = "a_start" THEN bucket ELSE output_bucket_name

\* if not bucket_name: choose the temporary bucket and key, upload_file; then
\* self.output_bucket_name = bucket_name
AwsUpload ==
    /\ epc = "a_upload"
    /\ IF bucket_name = None
       THEN \/ /\ Raise(IF loaded THEN <<"upload failed">>
                              ELSE <<"'NoneType' object has no attribute 'upload_file'">>)
               /\ bucket_name' = "your-transcribe-temp-bucket"
               /\ audio_key' = "temp-uploads/audio"
               /\ UNCHANGED uploaded
            \/ /\ loaded
               /\ bucket_name' = "your-transcribe-temp-bucket"
               /\ audio_key' = "temp-uploads/audio"
               /\ uploaded' = TRUE
               /\ epc' = "a_start"
               /\ UNCHANGED <<result, failure, raised>>
       ELSE /\ epc' = "a_start"
            /\ UNCHANGED <<result, failure, raised, bucket_name, audio_key, uploaded>>
    /\ output_bucket_name' = OutputBucketAfter(epc', bucket_name')
    /\ UNCHANGED <<engine, cfg_key, env_key, gcloud, api_key, loaded, load_raised,
                   cfg_output_bucket, rvars, mvars, avars>>
    /\ UNCHANGED <<cleanup, submitted, retry, queries, query_failed, terminal, job_status>>

\* start_transcription_job(...)
AwsStartJob ==
    /\ epc = "a_start"
    /\ \/ /\ Raise(IF loaded THEN <<"start_transcription_job failed">>
                         ELSE <<"'NoneType' object has no attribute 'start_transcription_job'">>)
          /\ UNCHANGED submitted
       \/ /\ loaded
          /\ submitted' = TRUE
          /\ epc' = "a_poll"
          /\ UNCHANGED <<result, failure, raised>>
    /\ EngineFrame
    /\ UNCHANGED <<bucket_name, audio_key, uploaded, cleanup, retry, queries, query_failed,
                   terminal, job_status>>

\* What get_transcription_job may answer (status['TranscriptionJob']).
AwsResponses ==
    {[TranscriptionJobStatus |-> st] :
        st \in {"QUEUED", "IN_PROGRESS", "COMPLETED", "FAILED"}}
      \cup {[TranscriptionJobStatus |-> "FAILED", FailureReason |-> r] :
              r \in Reasons \ {None}}

\* raise Exception(f"Transcription job failed: {error_reason}"), caught by
\* the method's own except clause.
AwsOnFailed(status) ==
    /\ terminal' = "Failed"
    /\ Raise(<<"Transcription job failed: ",
               Get(status, "FailureReason", "Unknown error")>>)

\* After a status that is neither COMPLETED nor FAILED: sleep, query again.
AwsNextPass ==
    /\ epc' = "a_poll"
    /\ UNCHANGED <<result, failure, raised, terminal>>

\* One pass of `while True`: get_transcription_job, the status test.
AwsPoll ==
    /\ epc = "a_poll"
    /\ queries < QueryCap
    /\ queries' = queries + 1
    /\ \/ /\ Raise(<<"get_transcription_job failed">>)
          /\ UNCHANGED <<terminal, job_status>>
       \/ \E status \in AwsResponses :
            LET job_state == status.TranscriptionJobStatus
            IN  /\ job_status' = status
                /\ IF job_state = "COMPLETED"
                   THEN /\ terminal' = "Completed"
                        /\ epc' = "a_download"
                        /\ UNCHANGED <<result, failure, raised>>
                   ELSE IF job_state = "FAILED"
                   THEN AwsOnFailed(status)
                   ELSE AwsNextPass
    /\ EngineFrame
    /\ UNCHANGED <<bucket_name, audio_key, uploaded, cleanup, submitted, retry,
                   query_failed>>

\* s3_client.download_file(bucket_name, output_key, tmp_path)
AwsDownload ==
    /\ epc = "a_download"
    /\ \/ Raise(<<"download failed">>)
       \/ /\ epc' = "a_parse"
          /\ UNCHANGED <<result, failure, raised>>
    /\ EngineFrame
    /\ AsyncFrame

\* `if not audio_key or not bucket_name`: whether the clean-up branch runs.
AwsCleansUp == audio_key = None \/ bucket_name = None

\* json.load, the transcript and the word items, the clean-up, return
AwsParse ==
    /\ epc = "a_parse"
    /\ \/ /\ Raise(<<"invalid json">>)
          /\ UNCHANGED cleanup
       \/ /\ Raise(<<"list index out of range">>)
          /\ UNCHANGED cleanup
       \/ \E raw \in BackendTexts :
            /\ cleanup' = (cleanup \/ AwsCleansUp)
            /\ Return([text |-> raw, chunks |-> "chunks", job_name |-> "job",
                       confidence |-> IF raw = <<>> THEN 0 ELSE 1])
    /\ EngineFrame
    /\ UNCHANGED <<bucket_name, audio_key, uploaded, submitted, retry, queries, query_failed,
                   terminal, job_status>>

----------------------------------------------------------------------------
(* One engine instance, loaded or not, and one call of transcribe *)

EngineNext ==
    \/ Load
    \/ Call
    \/ Except
    \/ DolphinLoadAudio
    \/ DolphinInfer
    \/ WhisperTranscribe
    \/ GoogleToken
    \/ GoogleRequest
    \/ GoogleParse
    \/ DeepgramRead
    \/ DeepgramRequest
    \/ SaladSubmit
    \/ SaladPoll
    \/ SaladExtract
    \/ AwsUpload
    \/ AwsStartJob
    \/ AwsPoll
    \/ AwsDownload
    \/ AwsParse

EngineSpec == EngineInit /\ [][EngineNext]_vars


----------------------------------------------------------------------------
(* Scoring: jiwer's wer and cer as save_result calls them *)

Min(a, b) == IF a < b THEN a ELSE b

\* Levenshtein distance: substitutions, deletions and insertions.
RECURSIVE EditDistance(_, _)
EditDistance(a, b) ==
    IF a = <<>> THEN Len(b)
    ELSE IF b = <<>> THEN Len(a)
    ELSE Min(Min(EditDistance(Tail(a), b) + 1, EditDistance(a, Tail(b)) + 1),
             EditDistance(Tail(a), Tail(b)) + (IF Head(a) = Head(b) THEN 0 ELSE 1))

\* Index of the last character of the word of t that starts at i.
RECURSIVE WordEnd(_, _)
WordEnd(t, i) ==
    IF i + 1 > Len(t) \/ IsSpace(t[i + 1]) THEN i ELSE WordEnd(t, i + 1)

\* The one element of a singleton set.  An operator's argument is an
\* expression, evaluated where it is used; a variable bound over a set holds
\* a value, computed once.
The(S) == CHOOSE x \in S : TRUE

\* str.split(): the maximal runs of non-space characters of a text.
RECURSIVE Words(_)
Words(s) ==
    The({ IF t = <<>> THEN <<>>
          ELSE <<SubSeq(t, 1, WordEnd(t, 1))>>
               \o Words(SubSeq(t, WordEnd(t, 1) + 1, Len(t)))
          : t \in {LStrip(s)} })

RECURSIVE GCD(_, _)
GCD(a, b) == IF b = 0 THEN a ELSE GCD(b, a % b)

\* The rate n / d, in lowest terms.
Rate(n, d) ==
    The({ <<a \div GCD(a, b), b \div GCD(a, b)>> : a \in {n}, b \in {d} })

Zero == Rate(0, 1)

RatePlus(x, y) == Rate(x[1] * y[2] + y[1] * x[2], x[2] * y[2])

RateOver(x, n) == Rate(x[1], x[2] * n)

RECURSIVE Pow2(_)
Pow2(k) == IF k = 0 THEN 1 ELSE 2 * Pow2(k - 1)

\* The float nearest to n / d: the quotient is brought between
\* 2^(MantissaBits - 1) and 2^MantissaBits by powers of two, which are exact,
\* and rounded to an integer there, a tie going to the even one.
RECURSIVE FRound(_, _)
FRound(n, d) ==
    IF n = 0 THEN Zero
    ELSE IF n >= d * Pow2(MantissaBits)
    THEN The({ Rate(2 * x[1], x[2]) : x \in {FRound(n, 2 * d)} })
    ELSE IF n < d * Pow2(MantissaBits - 1)
    THEN The({ Rate(x[1], 2 * x[2]) : x \in {FRound(2 * n, d)} })
    ELSE The({ Rate(IF 2 * r < d THEN q
                    ELSE IF 2 * r > d THEN q + 1
                    ELSE q + (q % 2), 1)
               : q \in {n \div d}, r \in {n % d} })

\* The float value of the quotient of two integers, or of a float by an
\* integer.
Float(n, d) == The({ FRound(a, b) : a \in {n}, b \in {d} })

\* x + y on floats
FAdd(x, y) == The({ FRound(z[1], z[2]) : z \in {RatePlus(x, y)} })

\* x / n on a float and an integer
FDiv(x, n) == The({ FRound(z[1], z[2]) : z \in {RateOver(x, n)} })

\* jiwer.wer(reference, hypothesis), for a reference with at least one word
wer(reference, hypothesis) ==
    The({ Float(EditDistance(r, h), Len(r))
          : r \in {Words(reference)}, h \in {Words(hypothesis)} })

\* jiwer.cer(reference, hypothesis), for a reference with at least one character
cer(reference, hypothesis) ==
    The({ Float(EditDistance(r, h), Len(r))
          : r \in {Strip(reference)}, h \in {Strip(hypothesis)} })

----------------------------------------------------------------------------
(* process_dataset, save_result and calculate_metrics *)

\* What can go wrong around one item, outside the model's transcribe.
Faults == {"download", "probe", "transcribe", "save"}

\* '' in a CSV field.
Blank == <<>>

\* The basename, without extension, of the key the loop is at.
file_id == FileId(audio_files[idx])

\* if total_duration >= OUTPUT_CONFIG['max_audio_duration']: break
BudgetReached_strict(total) == total > max_audio_duration

BudgetReached(total) == total >= max_audio_duration

RunnerFrame ==
    UNCHANGED <<evars, mvars, avars, audio_files, have_transcripts,
                transcript_dict>>

\* Only the audio listing is looked at.
NothingListed_audioOnly == audio_files = <<>>

\* if not audio_files: ... return None / if not transcript_files: ... return None
NothingListed == audio_files = <<>> \/ ~have_transcripts

\* From the listings to the CSV header; None when either listing is empty.
Start ==
    /\ rpc = "start"
    /\ IF NothingListed
       THEN rpc' = "returned_none" /\ csv' = csv
       ELSE rpc' = "loop" /\ csv' = <<Header>>
    /\ RunnerFrame
    /\ UNCHANGED <<idx, total_duration, item_result, results, json_files,
                   summary, hist>>

\* The head of the for loop with the audio file fetched before the reference
\* is looked up
NextItem_downloadFirst ==
    /\ rpc = "loop"
    /\ IF idx > Len(audio_files) \/ BudgetReached(total_duration)
       THEN /\ rpc' = "metrics"
            /\ UNCHANGED <<idx, hist>>
       ELSE IF file_id \notin DOMAIN transcript_dict
       THEN /\ rpc' = "loop"
            /\ idx' = idx + 1
            /\ hist' = [hist EXCEPT ![idx].reached = TRUE,
                                    ![idx].skipped = TRUE,
                                    ![idx].downloaded = TRUE]
       ELSE /\ rpc' = "download"
            /\ idx' = idx
            /\ hist' = [hist EXCEPT ![idx].reached = TRUE]
    /\ RunnerFrame
    /\ UNCHANGED <<total_duration, item_result, results, csv, json_files,
                   summary>>

\* The head of the for loop: the end of the list, the budget, the reference.
NextItem ==
    /\ rpc = "loop"
    /\ IF idx > Len(audio_files) \/ BudgetReached(total_duration)
       THEN /\ rpc' = "metrics"
            /\ UNCHANGED <<idx, hist>>
       ELSE IF file_id \notin DOMAIN transcript_dict
       THEN /\ rpc' = "loop"
            /\ idx' = idx + 1
            /\ hist' = [hist EXCEPT ![idx].reached = TRUE,
                                    ![idx].skipped = TRUE]
       ELSE /\ rpc' = "download"
            /\ idx' = idx
            /\ hist' = [hist EXCEPT ![idx].reached = TRUE]
    /\ RunnerFrame
    /\ UNCHANGED <<total_duration, item_result, results, csv, json_files,
                   summary>>

\* An exception inside the try block of the item the loop is at.
ItemRaise(h) ==
    /\ rpc' = "except"
    /\ hist' = [h EXCEPT ![idx].raised = TRUE]

\* download_file_from_s3(bucket_name, audio_file_key, tmpdir)
Download(F) ==
    /\ rpc = "download"
    /\ \/ /\ rpc' = "probe"
          /\ hist' = [hist EXCEPT ![idx].downloaded = TRUE]
       \/ /\ "download" \in F
          /\ ItemRaise(hist)
    /\ RunnerFrame
    /\ UNCHANGED <<idx, total_duration, item_result, results, csv, json_files,
                   summary>>

\* duration = get_audio_duration(local_audio_path); total_duration += duration
Probe(F, D) ==
    /\ rpc = "probe"
    /\ \/ \E duration \in D :
            /\ total_duration' = total_duration + duration
            /\ rpc' = "transcribe"
            /\ hist' = [hist EXCEPT ![idx].dur = duration]
       \/ /\ "probe" \in F
          /\ total_duration' = total_duration
          /\ ItemRaise(hist)
    /\ RunnerFrame
    /\ UNCHANGED <<idx, item_result, results, csv, json_files, summary>>

\* result = model.transcribe(local_audio_path)
Transcribe(F, S) ==
    /\ rpc = "transcribe"
    /\ \/ \E r \in S :
            /\ item_result' = r
            /\ rpc' = "save"
            /\ hist' = [hist EXCEPT ![idx].transcribed = TRUE,
                                    ![idx].returned = r]
       \/ /\ "transcribe" \in F
          /\ item_result' = item_result
          /\ ItemRaise([hist EXCEPT ![idx].transcribed = TRUE])
    /\ RunnerFrame
    /\ UNCHANGED <<idx, total_duration, results, csv, json_files, summary>>

\* save_result storing the character rate under 'wer' too
Scored_cerForWer(ground_truth, r) ==
    IF ground_truth # <<>> /\ HasKey(r, "text")
    THEN [ground_truth |-> ground_truth,
          wer |-> cer(Lower(ground_truth), Lower(r.text)),
          cer |-> cer(Lower(ground_truth), Lower(r.text))] @@ r
    ELSE r

\* save_result scoring the texts as they come, without .lower()
Scored_caseSensitive(ground_truth, r) ==
    IF ground_truth # <<>> /\ HasKey(r, "text")
    THEN [ground_truth |-> ground_truth,
          wer |-> wer(ground_truth, r.text),
          cer |-> cer(ground_truth, r.text)] @@ r
    ELSE r

\* save_result, lines 87-90: the result dict is scored in place.
Scored(ground_truth, r) ==
    IF ground_truth # <<>> /\ HasKey(r, "text")
    THEN [ground_truth |-> ground_truth,
          wer |-> wer(Lower(ground_truth), Lower(r.text)),
          cer |-> cer(Lower(ground_truth), Lower(r.text))] @@ r
    ELSE r

\* result.get('error', '') in place of result.get('text', '')
Hypothesis_error(r) == Get(r, "error", Blank)

\* result.get('text', '')
Hypothesis(r) == Get(r, "text", Blank)

\* save_result, lines 102-122: the fields of the row appended to results.csv.
CsvRow(id, ground_truth, r) ==
    << id,
       IF ground_truth # <<>> THEN ground_truth ELSE Blank,
       Hypothesis(r),
       Get(r, "wer", Blank),
       Get(r, "cer", Blank) >>
    \o (IF HasKey(r, "confidence") THEN <<r.confidence>> ELSE <<>>)

\* results.csv opened with 'w': the row replaces what the file held.
CsvAppend_truncate(file, row) == <<row>>

\* with open(csv_path, 'a', ...): writer.writerow(row)
CsvAppend(file, row) == Append(file, row)

\* if 'wer' in result and 'cer' in result
Tracked(r) == HasKey(r, "wer") /\ HasKey(r, "cer")

\* save_result(test_output_dir, file_id, result, ground_truth), then the
\* tracking of lines 111-116.  The write of <file_id>.json may fail; nothing
\* is persisted or tracked then.
SaveResult(F) ==
    /\ rpc = "save"
    /\ \E ground_truth \in {transcript_dict[file_id]} :
       \E r \in {Scored(ground_truth, item_result)} :
           /\ item_result' = r
           /\ \/ /\ json_files' =
                      Append(json_files, [file_id |-> file_id, record |-> r])
                 /\ csv' = CsvAppend(csv, CsvRow(file_id, ground_truth, r))
                 /\ results' =
                      IF Tracked(r)
                      THEN Append(results, [file_id |-> file_id,
                                            wer |-> r.wer, cer |-> r.cer])
                      ELSE results
                 /\ hist' = [hist EXCEPT ![idx].wrote_json = TRUE,
                                         ![idx].wrote_csv = TRUE]
                 /\ idx' = idx + 1
                 /\ rpc' = "loop"
              \/ /\ "save" \in F
                 /\ ItemRaise(hist)
                 /\ UNCHANGED <<json_files, csv, results, idx>>
    /\ RunnerFrame
    /\ UNCHANGED <<total_duration, summary>>

\* The handler gives up the whole run.
OnItemException_abort ==
    /\ rpc' = "aborted"
    /\ idx' = idx

\* except Exception as e: print(...); the for loop takes the next key.
OnItemException ==
    /\ rpc' = "loop"
    /\ idx' = idx + 1

ItemExcept ==
    /\ rpc = "except"
    /\ OnItemException
    /\ RunnerFrame
    /\ UNCHANGED <<total_duration, item_result, results, csv, json_files,
                   summary, hist>>

RECURSIVE SumFrom(_, _, _)
\* sum() adds from the left, starting from acc.
SumFrom(acc, rs, k) ==
    IF rs = <<>> THEN acc
    ELSE The({ SumFrom(a, Tail(rs), k)
               : a \in {IF HasKey(Head(rs), k) THEN FAdd(acc, Head(rs)[k])
                        ELSE acc} })

\* sum(r.get(k, 0) for r in results if k in r)
SumOf(rs, k) == SumFrom(Zero, rs, k)

calculate_metrics(rs) ==
    IF rs = <<>>
    THEN [avg_wer |-> Zero, avg_cer |-> Zero, num_files |-> 0]
    ELSE LET count == Len(rs)
         IN  [avg_wer |-> IF count > 0 THEN FDiv(SumOf(rs, "wer"), count)
                          ELSE Zero,
              avg_cer |-> IF count > 0 THEN FDiv(SumOf(rs, "cer"), count)
                          ELSE Zero,
              num_files |-> count]

\* metrics.json and the returned dict carry the same four figures.
Metrics ==
    /\ rpc = "metrics"
    /\ \E metrics \in {calculate_metrics(results)} :
           summary' = [num_files |-> metrics.num_files,
                       total_duration |-> total_duration,
                       avg_wer |-> metrics.avg_wer,
                       avg_cer |-> metrics.avg_cer]
    /\ rpc' = "done"
    /\ RunnerFrame
    /\ UNCHANGED <<idx, total_duration, item_result, results, csv, json_files,
                   hist>>

\* One step of process_dataset, the model's transcribe being a stub that
\* returns one of S or raises, in a world where the faults F can happen and
\* audio files last one of D seconds.
Step(F, D, S) ==
    \/ Start
    \/ NextItem
    \/ Download(F)
    \/ Probe(F, D)
    \/ Transcribe(F, S)
    \/ SaveResult(F)
    \/ ItemExcept
    \/ Metrics

RunnerNext == Step(Faults, Durations, StubResults)

Spec == RunnerInit /\ [][RunnerNext]_vars

\* Each statement of process_dataset terminates, so the run keeps moving.
RunnerFairness ==
    /\ WF_vars(Start)
    /\ WF_vars(NextItem)
    /\ WF_vars(Download(Faults))
    /\ WF_vars(Probe(Faults, Durations))
    /\ WF_vars(Transcribe(Faults, StubResults))
    /\ WF_vars(SaveResult(Faults))
    /\ WF_vars(ItemExcept)
    /\ WF_vars(Metrics)

LiveSpec == RunnerInit /\ [][RunnerNext]_vars /\ RunnerFairness

\* A listing in which two keys have the same basename up to the extension
\* (list_files_in_s3 keeps every key that ends in .wav, .mp3 or .flac), with
\* or without a third key of another name.
SameStemFiles ==
    { <<AudioKey(1), [AudioKey(1) EXCEPT !.ext = ".wav"]>>,
      <<AudioKey(1), [AudioKey(1) EXCEPT !.ext = ".wav"], AudioKey(2)>> }

SameStemInit ==
    /\ ExtraIdle
    /\ audio_files \in SameStemFiles
    /\ have_transcripts = TRUE
    /\ \E ids \in SUBSET {FileId(audio_files[i]) : i \in 1..Len(audio_files)} :
         transcript_dict = [f \in ids |-> Reference]
    /\ RunnerStart
    /\ EngineIdle
    /\ MainIdle
    /\ AggIdle

SameStemSpec == SameStemInit /\ [][RunnerNext]_vars

\* Five audio files, each with a reference, short enough for the budget; the
\* stub returns a transcript or an error alone, or raises.
FiveFiles == [i \in 1..5 |-> AudioKey(i)]

FiveDurations == {3600}

FiveStubs == { [text |-> <<"A", " ", "b">>], [text |-> <<"a">>],
               [error |-> <<"boom">>] }

FiveInit ==
    /\ ExtraIdle
    /\ audio_files = FiveFiles
    /\ have_transcripts = TRUE
    /\ transcript_dict = [f \in {FileId(FiveFiles[i]) : i \in 1..5} |-> Reference]
    /\ RunnerStart
    /\ EngineIdle
    /\ MainIdle
    /\ AggIdle

FiveNext == Step({"transcribe"}, FiveDurations, FiveStubs)

SpecFive == FiveInit /\ [][FiveNext]_vars

----------------------------------------------------------------------------
(* get_model and main *)

\* config.AVAILABLE_MODELS
AVAILABLE_MODELS == {"dolphin", "whisper", "google", "aws", "salad", "deepgram"}

\* The keys of get_model's model_map, in the order of the dict literal.
ModelNames == <<"dolphin", "whisper", "google", "aws", "salad", "deepgram">>

\* model_map of get_model, with two of its classes exchanged.
model_map_swapped ==
    [n \in {ModelNames[i] : i \in 1..Len(ModelNames)} |->
        CASE n = "dolphin"  -> "DolphinModel"
          [] n = "whisper"  -> "WhisperModel"
          [] n = "google"   -> "GoogleModel"
          [] n = "aws"      -> "SaladModel"
          [] n = "salad"    -> "AWSModel"
          [] n = "deepgram" -> "DeepgramModel"]

\* model_map of get_model: name -> class.
model_map ==
    [n \in {ModelNames[i] : i \in 1..Len(ModelNames)} |->
        CASE n = "dolphin"  -> "DolphinModel"
          [] n = "whisper"  -> "WhisperModel"
          [] n = "google"   -> "GoogleModel"
          [] n = "aws"      -> "AWSModel"
          [] n = "salad"    -> "SaladModel"
          [] n = "deepgram" -> "DeepgramModel"]

\* self.name as the __init__ of each class sets it.
NameOf(class) ==
    CASE class = "DolphinModel"  -> "dolphin"
      [] class = "WhisperModel"  -> "whisper"
      [] class = "GoogleModel"   -> "google"
      [] class = "AWSModel"      -> "aws"
      [] class = "SaladModel"    -> "salad"
      [] class = "DeepgramModel" -> "deepgram"

RECURSIVE Join(_, _)
\* sep.join(names), fragment by fragment
Join(sep, names) ==
    IF names = <<>> THEN <<>>
    ELSE IF Len(names) = 1 THEN names
    ELSE <<Head(names), sep>> \o Join(sep, Tail(names))

\* get_model(model_name, config): the instance built, or the ValueError.
get_model(name, config) ==
    IF name \notin DOMAIN model_map
    THEN [raise |-> <<"Unknown model: ", name, ". Available models: ">>
                    \o Join(", ", ModelNames)]
    ELSE [model |-> [class |-> model_map[name],
                     name |-> NameOf(model_map[name]),
                     api_key |-> ResolveApiKey(NameOf(model_map[name]),
                                               env_key, config)]]

\* The names a caller may pass: the six engines and some others.
Names == AVAILABLE_MODELS \cup {"azure", "Whisper", ""}

TestSets == {"test-clean", "test-other", "both"}

\* The test sets main processes for args.test_set, in order.
Todo(ts) ==
    (IF ts \in {"test-clean", "both"} THEN <<"test-clean">> ELSE <<>>)
    \o (IF ts \in {"test-other", "both"} THEN <<"test-other">> ELSE <<>>)

\* No engine has been constructed.
NoEngine ==
    /\ engine = None
    /\ cfg_key \in {None, "cfg-key"}
    /\ env_key \in {None, "env-key"}
    /\ gcloud \in BOOLEAN
    /\ api_key = None
    /\ loaded = FALSE
    /\ load_raised = FALSE
    /\ cfg_output_bucket = None
    /\ output_bucket_name = None
    /\ epc = "idle"
    /\ bucket_name = None
    /\ audio_key = None
    /\ uploaded = FALSE
    /\ cleanup = FALSE
    /\ submitted = FALSE
    /\ retry = 0
    /\ queries = 0
    /\ query_failed = FALSE
    /\ terminal = "none"
    /\ job_status = NoResult
    /\ result = NoResult
    /\ failure = NoFailure
    /\ raised = FALSE

\* main is entered with its command line; cfg_key is args.api_key (API_KEYS of
\* config.py holds no key).
MainInit ==
    /\ ExtraIdle
    /\ mpc = "args"
    /\ model_name \in Names
    /\ test_set \in TestSets
    /\ init_error = NoFailure
    /\ listed = <<>>
    /\ main_results = <<>>
    /\ overall = NoSummary
    /\ NoEngine
    /\ NoDataset
    /\ AggIdle

MainFrame ==
    UNCHANGED <<model_name, test_set, cfg_key, env_key, gcloud, avars,
                cfg_output_bucket, output_bucket_name>>

EngineCallIdle ==
    UNCHANGED <<epc, bucket_name, audio_key, uploaded, cleanup, submitted,
                retry, queries, query_failed, terminal, job_status, result, failure, raised>>

\* parse_args with choices=AVAILABLE_MODELS, the output directory, the config
ParseArgs ==
    /\ mpc = "args"
    /\ mpc' = IF model_name \in AVAILABLE_MODELS THEN "get_model" ELSE "usage"
    /\ MainFrame
    /\ EngineCallIdle
    /\ UNCHANGED <<engine, api_key, loaded, load_raised, rvars, init_error,
                   listed, main_results, overall>>

\* model = get_model(args.model, model_config)
GetModel ==
    /\ mpc = "get_model"
    /\ \E r \in {get_model(model_name, cfg_key)} :
         IF HasKey(r, "raise")
         THEN /\ init_error' = [raised |-> TRUE, msg |-> r.raise]
              /\ mpc' = "init_except"
              /\ UNCHANGED <<engine, api_key>>
         ELSE /\ engine' = r.model.name
              /\ api_key' = r.model.api_key
              /\ mpc' = "load"
              /\ UNCHANGED init_error
    /\ MainFrame
    /\ EngineCallIdle
    /\ UNCHANGED <<loaded, load_raised, rvars, listed, main_results, overall>>

\* model.load()
MainLoad ==
    /\ mpc = "load"
    /\ \/ /\ LoadCanSucceed
          /\ loaded' = TRUE
          /\ mpc' = "datasets"
          /\ UNCHANGED <<load_raised, init_error>>
       \/ /\ LoadCanRaise
          /\ load_raised' = TRUE
          /\ init_error' = [raised |-> TRUE, msg |-> <<"load failed">>]
          /\ mpc' = "init_except"
          /\ UNCHANGED loaded
    /\ MainFrame
    /\ EngineCallIdle
    /\ UNCHANGED <<engine, api_key, rvars, listed, main_results, overall>>

\* The handler goes on to the test sets.
OnInitError_goOn == mpc' = "datasets"

\* except Exception as e: print(...); return
OnInitError == mpc' = "exit"

InitExcept ==
    /\ mpc = "init_except"
    /\ OnInitError
    /\ MainFrame
    /\ EngineCallIdle
    /\ UNCHANGED <<engine, api_key, loaded, load_raised, rvars, init_error,
                   listed, main_results, overall>>

\* What list_files_in_s3 and build_transcript_dict find under a prefix.
MainListings ==
    { [audio_files |-> <<>>, have_transcripts |-> TRUE, transcript_dict |-> <<>>],
      [audio_files |-> <<AudioKey(1)>>, have_transcripts |-> FALSE,
       transcript_dict |-> <<>>],
      [audio_files |-> <<AudioKey(1)>>, have_transcripts |-> TRUE,
       transcript_dict |-> [f \in {FileId(AudioKey(1))} |-> Reference]] }

\* process_dataset(model, bucket, prefix, output_dir, <next test set>) is
\* entered: its files are listed.
CallDataset ==
    /\ mpc = "datasets"
    /\ Len(listed) < Len(Todo(test_set))
    /\ \E l \in MainListings :
         /\ audio_files' = l.audio_files
         /\ transcript_dict' = l.transcript_dict
         /\ hist' = [i \in 1..Len(l.audio_files) |-> Untouched]
         /\ have_transcripts' = l.have_transcripts
    /\ rpc' = "start"
    /\ idx' = 1
    /\ total_duration' = 0
    /\ item_result' = NoResult
    /\ results' = <<>>
    /\ csv' = <<>>
    /\ json_files' = <<>>
    /\ summary' = NoSummary
    /\ listed' = Append(listed, Todo(test_set)[Len(listed) + 1])
    /\ mpc' = "in_dataset"
    /\ MainFrame
    /\ EngineCallIdle
    /\ UNCHANGED <<engine, api_key, loaded, load_raised, init_error,
                   main_results, overall>>

\* process_dataset has returned: if test_..._metrics: results[...] = ...
ReturnDataset ==
    /\ mpc = "in_dataset"
    /\ rpc \in {"done", "returned_none"}
    /\ main_results' =
         IF rpc = "done"
         THEN Append(main_results,
                     [test_set |-> listed[Len(listed)], metrics |-> summary])
         ELSE main_results
    /\ rpc' = "idle"
    /\ mpc' = "datasets"
    /\ MainFrame
    /\ EngineCallIdle
    /\ UNCHANGED <<engine, api_key, loaded, load_raised, init_error, listed,
                   overall, audio_files, have_transcripts, transcript_dict,
                   idx, total_duration, item_result, results, csv, json_files,
                   summary, hist>>

\* The overall file holds the last test set's metrics only.
OverallDoc_lastOnly(name, rs) == [model |-> name, results |-> <<rs[Len(rs)]>>]

\* json.dump({'model': args.model, 'results': results}, f, indent=2)
OverallDoc(name, rs) == [model |-> name, results |-> rs]

\* if results: write <model>_overall_metrics.json
Overall ==
    /\ mpc = "datasets"
    /\ Len(listed) = Len(Todo(test_set))
    /\ overall' = IF main_results # <<>>
                  THEN OverallDoc(model_name, main_results)
                  ELSE overall
    /\ mpc' = "exit"
    /\ MainFrame
    /\ EngineCallIdle
    /\ UNCHANGED <<engine, api_key, loaded, load_raised, init_error, listed,
                   main_results, rvars>>

\* The exit status of the process once main is over: argparse exits with 2
\* on a bad argument; main returns, after the except clause as after the last
\* print, and the interpreter ends with 0.
ExitStatus == IF mpc = "usage" THEN 2 ELSE 0

MainStubs == { [text |-> <<"A", " ", "b">>], [error |-> <<"boom">>] }

MainNext ==
    \/ ParseArgs
    \/ GetModel
    \/ MainLoad
    \/ InitExcept
    \/ CallDataset
    \/ Step({"transcribe"}, FiveDurations, MainStubs)
    \/ ReturnDataset
    \/ Overall

MainSpec == MainInit /\ [][MainNext]_vars

\* get_model and load() as main calls them, for any name at all.
FactoryInit ==
    /\ ExtraIdle
    /\ mpc = "get_model"
    /\ model_name \in Names
    /\ test_set \in TestSets
    /\ init_error = NoFailure
    /\ listed = <<>>
    /\ main_results = <<>>
    /\ overall = NoSummary
    /\ NoEngine
    /\ NoDataset
    /\ AggIdle

FactoryNext == GetModel \/ MainLoad \/ InitExcept

FactorySpec == FactoryInit /\ [][FactoryNext]_vars

----------------------------------------------------------------------------
(* The aggregators on their own: utils.calculate_metrics and               *)
(* evaluate.save_summary, called on a list of result dicts                 *)

\* Result dicts as callers can hand them over: with both rates, with the
\* character rate only, and with neither.
AggItems ==
    { [file_id |-> "f", wer |-> w, cer |-> w] : w \in {Zero, <<1, 8>>, <<1, 1>>} }
    \cup { [file_id |-> "f", cer |-> <<1, 1>>], [file_id |-> "f"] }

\* save_summary without its branch for the empty list: the division by
\* len(results) raises.
save_summary_noEmptyBranch(rs) ==
    IF \E i \in 1..Len(rs) : ~HasKey(rs[i], "wer") \/ ~HasKey(rs[i], "cer")
    THEN [raise |-> "KeyError"]
    ELSE IF Len(rs) = 0
    THEN [raise |-> "ZeroDivisionError"]
    ELSE [avg_wer |-> FDiv(SumOf(rs, "wer"), Len(rs)),
          avg_cer |-> FDiv(SumOf(rs, "cer"), Len(rs)),
          num_files |-> Len(rs)]

\* evaluate.save_summary: the dict it dumps, or the KeyError of r['wer'] or
\* r['cer'] on an item without that key, in which case nothing is written.
save_summary(rs) ==
    IF rs = <<>>
    THEN [avg_wer |-> Zero, avg_cer |-> Zero, num_files |-> 0]
    ELSE IF \E i \in 1..Len(rs) : ~HasKey(rs[i], "wer") \/ ~HasKey(rs[i], "cer")
    THEN [raise |-> "KeyError"]
    ELSE [avg_wer |-> FDiv(SumOf(rs, "wer"), Len(rs)),
          avg_cer |-> FDiv(SumOf(rs, "cer"), Len(rs)),
          num_files |-> Len(rs)]

AggInit ==
    /\ ExtraIdle
    /\ agg_results \in UNION { [1..n -> AggItems] : n \in 0..MaxResults }
    /\ agg_metrics = NoSummary
    /\ eval_summary = NoSummary
    /\ eval_raised = FALSE
    /\ ScoreIdle
    /\ NoEngine
    /\ NoDataset
    /\ MainIdle

AggFrame ==
    UNCHANGED <<evars, rvars, mvars, agg_results, sr_ground_truth, sr_result,
                sr_pc, xvars>>

\* metrics = calculate_metrics(results)
CalculateMetrics ==
    /\ agg_metrics = NoSummary
    /\ agg_metrics' = calculate_metrics(agg_results)
    /\ AggFrame
    /\ UNCHANGED <<eval_summary, eval_raised>>

\* save_summary(results, output_json)
SaveSummary ==
    /\ eval_summary = NoSummary
    /\ ~eval_raised
    /\ \E out \in {save_summary(agg_results)} :
         IF HasKey(out, "raise")
         THEN eval_raised' = TRUE /\ UNCHANGED eval_summary
         ELSE eval_summary' = out /\ UNCHANGED eval_raised
    /\ AggFrame
    /\ UNCHANGED agg_metrics

AggNext == CalculateMetrics \/ SaveSummary

AggSpec == AggInit /\ [][AggNext]_vars

----------------------------------------------------------------------------
(* save_result on its own: called with a ground truth and a result dict    *)

ScoreChars == {"a", "b", "A", " "}

\* Three words each, one word apart.
ExampleTexts == { <<"a", " ", "b", " ", "a">>, <<"a", " ", "a", " ", "a">> }

ScoreTexts == UNION { [1..k -> ScoreChars] : k \in 0..MaxText } \cup ExampleTexts

\* The result dicts: a transcript, or an error without 'text'.
ScoreResults == { [text |-> t] : t \in ScoreTexts } \cup { [error |-> <<"boom">>] }

\* jiwer raises ValueError on a reference that holds no word (and so no
\* character once stripped).
ReferenceRejected(reference) == Words(reference) = <<>>

ScoreInit ==
    /\ ExtraIdle
    /\ sr_ground_truth \in ScoreTexts
    /\ sr_result \in ScoreResults
    /\ sr_pc = "call"
    /\ agg_results = <<>>
    /\ agg_metrics = NoSummary
    /\ eval_summary = NoSummary
    /\ eval_raised = FALSE
    /\ EngineIdle
    /\ NoDataset
    /\ MainIdle

\* save_result(output_dir, file_id, result, ground_truth): lines 86-90 change
\* result in place, and the dict is then dumped to <file_id>.json and its row
\* appended to results.csv.  result['ground_truth'] is set before wer is
\* called, so it stays when wer raises.
SaveResultCall ==
    /\ sr_pc = "call"
    /\ IF /\ sr_ground_truth # <<>>
          /\ HasKey(sr_result, "text")
          /\ ReferenceRejected(Lower(sr_ground_truth))
       THEN /\ sr_result' = [ground_truth |-> sr_ground_truth] @@ sr_result
            /\ sr_pc' = "raised"
       ELSE /\ sr_result' = Scored(sr_ground_truth, sr_result)
            /\ sr_pc' = "saved"
    /\ UNCHANGED <<evars, rvars, mvars, agg_results, agg_metrics, eval_summary,
                   eval_raised, sr_ground_truth, xvars>>

ScoreNext == SaveResultCall

ScoreSpec == ScoreInit /\ [][ScoreNext]_vars

----------------------------------------------------------------------------
(* The duration accounting of process_dataset on its own: total_duration   *)
(* is a float and `total_duration += duration` a float addition.  (The     *)
(* durations of Spec are whole seconds whose sums are exact.)              *)

\* len(f) / f.samplerate, in seconds, for three audio files
FloatDurations == { Float(16384, 1), Float(12288, 1), Float(1, 2) }

\* What happens to an item the loop admits: get_audio_duration returns, or
\* the download or the probe raises (or the item is skipped).
DurOutcomes ==
    [ok : {TRUE}, duration : FloatDurations] \cup [ok : {FALSE}, duration : {Zero}]

\* x >= n, for a float x and an integer n
FloatGe(x, n) == x[1] >= n * x[2]

\* x < y on rationals
RateLess(x, y) == x[1] * y[2] < y[1] * x[2]

DurInit ==
    /\ dur_outcomes \in UNION { [1..n -> DurOutcomes] : n \in 0..MaxProbes }
    /\ dur_idx = 1
    /\ dur_total = Zero
    /\ dur_pc = "loop"
    /\ EvalIdle
    /\ CleanIdle
    /\ EngineIdle
    /\ RunnerIdle

DurFrame ==
    UNCHANGED <<evars, rvars, mvars, agg_results, agg_metrics, eval_summary,
                eval_raised, sr_ground_truth, sr_result, sr_pc, dur_outcomes,
                qvars, cvars>>

\* for audio_file_key in audio_files: if total_duration >= max_audio_duration: break
DurHead ==
    /\ dur_pc = "loop"
    /\ dur_pc' = IF \/ dur_idx > Len(dur_outcomes)
                    \/ FloatGe(dur_total, max_audio_duration)
                 THEN "done"
                 ELSE "probe"
    /\ UNCHANGED <<dur_idx, dur_total>>
    /\ DurFrame

\* The body of the loop: total_duration += duration once the probe has
\* returned; nothing else in the body, nor the except clause, assigns it.
DurProbe ==
    /\ dur_pc = "probe"
    /\ dur_total' = IF dur_outcomes[dur_idx].ok
                    THEN FAdd(dur_total, dur_outcomes[dur_idx].duration)
                    ELSE dur_total
    /\ dur_idx' = dur_idx + 1
    /\ dur_pc' = "loop"
    /\ DurFrame

DurNext == DurHead \/ DurProbe

DurationSpec == DurInit /\ [][DurNext]_vars

----------------------------------------------------------------------------
(* evaluate.py: calculate_metrics(references, hypotheses) and save_summary *)

FileIds == {"f1", "f2", "f3", "f4"}

\* Reference texts as load_reference_transcripts yields them: lower case,
\* with a word at least.
ReferenceTexts == { <<"a">>, <<"a", " ", "b">> }

\* Hypothesis texts as load_hypothesis_transcripts yields them: lower case.
HypothesisTexts == { <<>>, <<"a">> }

\* The reference dicts: every order of every set of ids, with their texts.
ReferenceDicts ==
    { d \in UNION { [1..n -> [file_id : FileIds, reference : ReferenceTexts]]
                    : n \in 0..MaxRefs } :
        \A i, j \in DOMAIN d : d[i].file_id = d[j].file_id => i = j }

HypothesisDicts == UNION { [ids -> HypothesisTexts] : ids \in SUBSET FileIds }

\* calculate_metrics scoring every reference, against '' when the id has no
\* hypothesis
RECURSIVE eval_calculate_metrics_noJoin(_, _)
eval_calculate_metrics_noJoin(refs, hyps) ==
    IF refs = <<>> THEN <<>>
    ELSE The({ <<[file_id |-> r.file_id,
                  reference |-> r.reference,
                  hypothesis |-> h,
                  wer |-> wer(r.reference, h),
                  cer |-> cer(r.reference, h)]>>
               : r \in {Head(refs)},
                 h \in {IF Head(refs).file_id \in DOMAIN hyps
                        THEN hyps[Head(refs).file_id] ELSE <<>>} })
         \o eval_calculate_metrics_noJoin(Tail(refs), hyps)

\* evaluate.calculate_metrics(references, hypotheses)
RECURSIVE eval_calculate_metrics(_, _)
eval_calculate_metrics(refs, hyps) ==
    IF refs = <<>> THEN <<>>
    ELSE (IF Head(refs).file_id \in DOMAIN hyps
          THEN The({ <<[file_id |-> r.file_id,
                        reference |-> r.reference,
                        hypothesis |-> h,
                        wer |-> wer(r.reference, h),
                        cer |-> cer(r.reference, h)]>>
                     : r \in {Head(refs)}, h \in {hyps[Head(refs).file_id]} })
          ELSE <<>>)
         \o eval_calculate_metrics(Tail(refs), hyps)

EvalInit ==
    /\ references \in ReferenceDicts
    /\ hypotheses \in HypothesisDicts
    /\ ev_results = <<>>
    /\ ev_summary = NoSummary
    /\ ev_pc = "loaded"
    /\ DurIdle
    /\ CleanIdle
    /\ EngineIdle
    /\ RunnerIdle

EvalFrame ==
    UNCHANGED <<evars, rvars, mvars, agg_results, agg_metrics, eval_summary,
                eval_raised, sr_ground_truth, sr_result, sr_pc, dvars, cvars,
                references, hypotheses>>

\* results = calculate_metrics(references, hypotheses)
EvalCalculate ==
    /\ ev_pc = "loaded"
    /\ ev_results' = eval_calculate_metrics(references, hypotheses)
    /\ ev_pc' = "scored"
    /\ UNCHANGED ev_summary
    /\ EvalFrame

\* save_results_to_csv(results, ...); save_summary(results, args.output_json)
EvalSaveSummary ==
    /\ ev_pc = "scored"
    /\ ev_summary' = save_summary(ev_results)
    /\ ev_pc' = "saved"
    /\ UNCHANGED ev_results
    /\ EvalFrame

EvalNext == EvalCalculate \/ EvalSaveSummary

EvalSpec == EvalInit /\ [][EvalNext]_vars

----------------------------------------------------------------------------
(* DolphinModel.clean_hypothesis_text on its own *)

CleanChars == {"<", ">", "a", " "}

CleanInit ==
    /\ ct_text \in UNION { [1..n -> CleanChars] : n \in 0..MaxClean }
    /\ ct_once = <<>>
    /\ ct_twice = <<>>
    /\ ct_pc = "call"
    /\ DurIdle
    /\ EvalIdle
    /\ EngineIdle
    /\ RunnerIdle

CleanFrame ==
    UNCHANGED <<evars, rvars, mvars, agg_results, agg_metrics, eval_summary,
                eval_raised, sr_ground_truth, sr_result, sr_pc, dvars, qvars,
                ct_text>>

\* clean_hypothesis_text(text)
CleanOnce ==
    /\ ct_pc = "call"
    /\ ct_once' = clean_hypothesis_text(ct_text)
    /\ ct_pc' = "once"
    /\ UNCHANGED ct_twice
    /\ CleanFrame

\* clean_hypothesis_text of what the first call returned
CleanTwice ==
    /\ ct_pc = "once"
    /\ ct_twice' = clean_hypothesis_text(ct_once)
    /\ ct_pc' = "twice"
    /\ UNCHANGED ct_once
    /\ CleanFrame

CleanNext == CleanOnce \/ CleanTwice

CleanSpec == CleanInit /\ [][CleanNext]_vars

----------------------------------------------------------------------------
(* Properties of the dataset runner *)

Items == 1..Len(audio_files)

\* The run has returned the dataset summary.
Summarised == rpc = "done" /\ HasKey(summary, "num_files")

\* The records written to <file_id>.json for the k-th audio file.
JsonOf(k) ==
    { json_files[j].record : j \in { i \in 1..Len(json_files) :
                                      json_files[i].file_id = FileId(audio_files[k]) } }

\* The rows of results.csv, below the header, for the k-th audio file.
RowsOf(k) ==
    { csv[j] : j \in { i \in 2..Len(csv) : csv[i][1] = FileId(audio_files[k]) } }

\* C2: no failure while handling one item propagates past that item.  The
\* run is never given up; the handler of an item's exception always hands
\* over to the next key of the list; and once an item has failed, the run
\* still ends by returning the dataset summary.
C2_FailuresContained ==
    /\ [](rpc # "aborted")
    /\ [][(rpc = "except") => (rpc' = "loop" /\ idx' = idx + 1)]_vars
    /\ ((\E k \in Items : hist[k].raised) ~> Summarised)

\* Three items: the download of the first fails, the saving of the second
\* fails, the third is persisted, and the summary is returned.
C2_Witness ==
    /\ Summarised
    /\ Len(audio_files) = 3
    /\ hist[1].raised /\ ~hist[1].downloaded
    /\ hist[2].raised /\ HasKey(hist[2].returned, "text") /\ JsonOf(2) = {}
    /\ ~hist[3].raised /\ RowsOf(3) # {}

RECURSIVE DurationBefore(_)
\* The sum of the durations of the items admitted before the k-th.
DurationBefore(k) ==
    IF k <= 1 THEN 0
    ELSE DurationBefore(k - 1)
         + (IF hist[k - 1].dur >= 0 THEN hist[k - 1].dur ELSE 0)

ErrorResult(r) == HasKey(r, "error") /\ HasKey(r, "text") /\ r.text = <<>>

\* C4: an item whose transcription result has 'error' set, with text '', gets
\* no wer/cer in its record and is not among the results the summary counts
\* and averages, while its JSON record and CSV row are written.
C4_ErrorItemsUnscored ==
    \A k \in Items :
        (ErrorResult(hist[k].returned) /\ hist[k].wrote_csv) =>
            /\ JsonOf(k) # {}
            /\ RowsOf(k) # {}
            /\ \A rec \in JsonOf(k) : ~HasKey(rec, "wer") /\ ~HasKey(rec, "cer")
            /\ \A j \in 1..Len(results) :
                   results[j].file_id # FileId(audio_files[k])

\* A result that holds an error alone.
ErrorOnly(r) == HasKey(r, "error") /\ ~HasKey(r, "text")

\* A result that holds a transcript and no error.
NormalText(r) == HasKey(r, "text") /\ ~HasKey(r, "error")

\* The five-item run is over: one transcribe returned an error alone, the
\* other four a transcript.
OneInFiveFailed ==
    /\ rpc = "done"
    /\ Len(audio_files) = 5
    /\ Cardinality({k \in Items : ErrorOnly(hist[k].returned)}) = 1
    /\ Cardinality({k \in Items : NormalText(hist[k].returned)}) = 4

\* C5: five items with a reference, transcribe returning an error alone for
\* one of them and a transcript for the other four: the summary has
\* num_files = 4 and results.csv has a row for the failed item whose
\* hypothesis is empty.
C5_OneInFive ==
    OneInFiveFailed =>
        /\ Summarised
        /\ summary.num_files = 4
        /\ \A k \in Items :
               ErrorOnly(hist[k].returned) =>
                   /\ RowsOf(k) # {}
                   /\ \A row \in RowsOf(k) : row[3] = Blank

C5_Witness ==
    /\ OneInFiveFailed
    /\ summary.num_files = 4
    /\ ErrorOnly(hist[3].returned)
    /\ RowsOf(3) # {}

UpperChar(c) ==
    CASE c = "h" -> "H"
      [] c = "a" -> "A"
      [] c = "b" -> "B"
      [] OTHER -> c

\* The texts that differ from s in the case of some characters only.
RECURSIVE CaseVariants(_)
CaseVariants(s) ==
    IF s = <<>> THEN {<<>>}
    ELSE { <<c>> \o t : c \in {LowerChar(Head(s)), UpperChar(Head(s))},
                        t \in CaseVariants(Tail(s)) }

\* The rates of record r are those of every other casing of its two texts,
\* and are 0 when the two texts are equal up to case.
CaseInsensitiveRecord(r) ==
    HasKey(r, "wer") =>
        /\ \A g \in CaseVariants(r.ground_truth) : \A t \in CaseVariants(r.text) :
               \E s \in {Scored(g, [text |-> t])} :
                   s.wer = r.wer /\ s.cer = r.cer
        /\ Lower(r.ground_truth) = Lower(r.text) => (r.wer = Zero /\ r.cer = Zero)

\* C20: the wer and cer save_result records for an item are those it records
\* for every other casing of the reference and of the hypothesis, and both
\* are 0 when the two texts are equal up to case.
C20_CaseInsensitive ==
    [][json_files' # json_files =>
         CaseInsensitiveRecord(json_files'[Len(json_files')].record)]_vars

\* The records save_result has scored.
ScoredRecords ==
    { json_files[j].record : j \in { i \in 1..Len(json_files) :
                                      HasKey(json_files[i].record, "wer") } }

\* A hypothesis with a capital letter, equal to its reference up to case, has
\* been recorded with wer 0 and cer 0.
C20_Witness ==
    \E r \in ScoredRecords :
        /\ r.text # Lower(r.text)
        /\ Lower(r.text) = Lower(r.ground_truth)
        /\ r.wer = Zero
        /\ r.cer = Zero

\* The lines of results.csv, below the header, that are rows of the k-th
\* audio file.
RowIdx(k) == { i \in 2..Len(csv) : csv[i][1] = FileId(audio_files[k]) }

\* transcribe has returned a result for the k-th audio file.
TranscriptionPerformed(k) == hist[k].returned # NoResult

\* The position in audio_files of the file a CSV row is about.
PositionOf(row) == CHOOSE k \in Items : FileId(audio_files[k]) = row[1]

C24_WriteOnce ==
    \A i \in 1..Len(json_files) : \A j \in 1..Len(json_files) :
        json_files[i].file_id = json_files[j].file_id => i = j

\* C25: every item the loop has taken up and left behind has an entry in the
\* persisted per-item log, a record or a CSV row, whether it was scored,
\* skipped for want of a reference, or failed.
C25_ReachedItemsRecorded ==
    \A k \in Items :
        (hist[k].reached /\ k < idx) => (JsonOf(k) # {} \/ RowIdx(k) # {})

\* An item without a reference is being skipped by this step.
SkipStep == \E k \in Items : hist'[k].skipped /\ ~hist[k].skipped

\* C33: skipping an item that has no reference leaves the running total
\* duration, the list of scored results, the CSV log and the per-item records
\* as they were, and the skipped item is never downloaded, probed nor
\* transcribed.
C33_SkipChangesNothing ==
    /\ [][SkipStep => UNCHANGED <<total_duration, results, csv, json_files>>]_vars
    /\ [](\A k \in Items :
             hist[k].skipped =>
                 /\ ~hist[k].downloaded
                 /\ ~hist[k].transcribed
                 /\ hist[k].dur = -1
                 /\ ~hist[k].wrote_json
                 /\ ~hist[k].wrote_csv)

\* An item was skipped after another one had been scored and logged, and the
\* run went on past it.
C33_Witness ==
    \E k \in Items :
        /\ hist[k].skipped
        /\ k < idx
        /\ total_duration > 0
        /\ Len(results) > 0
        /\ Len(csv) > 1

\* C36: at every point of a dataset run the first line of results.csv is its
\* header, and every line below it, a row save_result appended, has as many
\* fields as that header, whatever the shape of the engine's result.
C36_CsvWellFormed ==
    csv # <<>> =>
        /\ csv[1] = Header
        /\ \A i \in 2..Len(csv) : Len(csv[i]) = Len(Header)

----------------------------------------------------------------------------
(* Properties of the duration accounting, checked under DurationSpec *)

\* The items the loop went through whose duration probe succeeded.
Probed == { k \in 1..(dur_idx - 1) : dur_outcomes[k].ok }

LastProbed == CHOOSE k \in Probed : \A j \in Probed : j <= k

\* C35: budget overshoot is bounded by one item; at the end of a run the
\* total duration is less than the budget plus the duration of the last item
\* whose duration was added to it.
C35_OvershootBounded ==
    (dur_pc = "done" /\ Probed # {}) =>
        RateLess(dur_total,
                 RatePlus(Rate(max_audio_duration, 1),
                          dur_outcomes[LastProbed].duration))

----------------------------------------------------------------------------
(* Properties of the engines, checked under EngineSpec *)

Returned == epc = "returned"

Range(f) == {f[i] : i \in DOMAIN f}

\* The reason the job itself gave for failing, when it gave one.
JobReasonKey == IF engine = "salad" THEN "error" ELSE "FailureReason"

\* C1: for every engine variant and every backend failure at any step of
\* transcribe (unreadable audio, network or API error, unparsable response,
\* engine used before load), transcribe returns a result dict and never
\* raises to its caller; a call ended by a failure returns a dict with an
\* 'error' key.
C1_NeverRaises ==
    /\ ~raised
    /\ Returned => /\ result # NoResult
                   /\ failure # NoFailure => HasKey(result, "error")

\* Deepgram called before load(): the client is None, the call still returns.
C1_Witness ==
    /\ Returned
    /\ engine = "deepgram"
    /\ ~loaded
    /\ failure.raised
    /\ HasKey(result, "error")

\* C6: an async-job-polling engine (Salad, AWS) whose job never reaches a
\* terminal state stops polling after a bounded number of status queries
\* (max_retries) and returns a timeout error: it is never found waiting to
\* poll with max_retries queries already issued, and once max_retries
\* queries have gone by without a terminal status or an exception the call
\* has returned a timed-out error result.
C6_BoundedPolling ==
    engine \in AsyncEngines =>
        /\ epc \in {"s_poll", "a_poll"} => queries < max_retries
        /\ (queries >= max_retries /\ terminal \notin {"Completed", "Failed"}
              /\ ~failure.raised)
             => /\ Returned
                /\ terminal = "TimedOut"
                /\ HasKey(result, "error")

\* C7: for an async-job-polling engine, non-terminal statuses followed by a
\* failure status make transcribe return a result whose 'error' is populated
\* and contains the failure reason the job gave, and whose 'text' is ''.
C7_FailedJob ==
    (engine \in AsyncEngines /\ terminal = "Failed" /\ Returned) =>
        /\ HasKey(result, "error")
        /\ result.error # <<>>
        /\ HasKey(job_status, JobReasonKey)
             => job_status[JobReasonKey] \in Range(result.error)
        /\ HasKey(result, "text")
        /\ result.text = <<>>

\* The status sequence [non-terminal, non-terminal, failed with a reason].
C7_Witness ==
    /\ engine = "aws"
    /\ terminal = "Failed"
    /\ Returned
    /\ queries = 3
    /\ HasKey(job_status, "FailureReason")

\* C8: every async-job-polling call that submitted a job ends in exactly one
\* of Completed, Failed, TimedOut, and the result matches: Completed gives
\* 'text' from the job output and no 'error'; Failed and TimedOut give
\* 'error'.  Calls cut short by an exception of a backend operation are left
\* aside here; "ends" is read as in C6: once max_retries queries have gone
\* by, the call has reached one of the three states.
C8_TerminalStates ==
    (engine \in AsyncEngines /\ submitted
       /\ ~(failure.raised /\ terminal # "Failed")) =>
        /\ Returned =>
             /\ terminal \in {"Completed", "Failed", "TimedOut"}
             /\ terminal = "Completed" =>
                  /\ HasKey(result, "text")
                  /\ ~HasKey(result, "error")
             /\ terminal \in {"Failed", "TimedOut"} =>
                  /\ HasKey(result, "error")
                  /\ result.error # <<>>
        /\ queries >= max_retries
             => terminal \in {"Completed", "Failed", "TimedOut"}

\* C9: no status query is issued unless the job submission succeeded (a
\* failed submission returns an error result with zero status queries), and
\* once a status query has returned a terminal status (success or failure)
\* no further status query is issued.
C9_PollingOrder ==
    /\ [](engine \in AsyncEngines =>
            /\ queries > 0 => submitted
            /\ (Returned /\ ~submitted)
                 => (queries = 0 /\ HasKey(result, "error")))
    /\ [][(terminal \in {"Completed", "Failed"}) => (queries' = queries)]_vars

\* Salad: the second status query reports success and the call returns.
C9_Witness ==
    /\ engine = "salad"
    /\ submitted
    /\ terminal = "Completed"
    /\ queries = 2
    /\ Returned

\* C10: in every result returned by any engine's transcribe, if the 'error'
\* key is present then 'text' is present and is the empty string.
C10_ErrorImpliesEmptyText ==
    (Returned /\ HasKey(result, "error")) =>
        /\ HasKey(result, "text")
        /\ result.text = <<>>

\* Google answers with a non-200 response.
C10_Witness ==
    /\ engine = "google"
    /\ Returned
    /\ failure = [raised |-> FALSE, msg |-> <<"non-200 response">>]
    /\ HasKey(result, "error")

\* C11: when transcribe of the AWS engine uploaded the audio itself, a delete
\* of the uploaded object has been attempted by the time it returns, on the
\* success path and on every failure path.
C11_UploadCleanedUp ==
    (engine = "aws" /\ uploaded /\ Returned) => cleanup

\* The credential a REST/cloud engine presents to its backend.
CredentialUsed ==
    IF engine = "google" THEN GetAccessToken ELSE api_key

\* C12: a REST/cloud engine uses the explicit config api_key when there is
\* one, the environment variable only when there is none, and (google) the
\* gcloud token only when neither is set.
C12_CredentialPriority ==
    engine \in EnvEngines =>
        CredentialUsed =
            (IF cfg_key # None THEN cfg_key
             ELSE IF env_key # None THEN env_key
             ELSE IF engine = "google" /\ gcloud THEN "gcloud-token"
             ELSE None)

\* Some source yields a credential for the engine.
CredentialAvailable ==
    cfg_key # None \/ env_key # None \/ (engine = "google" /\ gcloud)

\* C13: load() of google, salad and deepgram fails when no source yields a
\* credential, so no transcribe call after a successful load() is the first
\* to report the missing credential.
C13_LoadFailsFast ==
    (engine \in EnvEngines /\ loaded) => CredentialAvailable

\* transcribe has returned a transcript, not a failure.
Succeeded == Returned /\ failure = NoFailure /\ ~HasKey(result, "error")

\* C28: the 'text' of every successful transcription, whatever the engine,
\* is in lower case.
C28_TextLowerCase ==
    (Succeeded /\ HasKey(result, "text")) => result.text = Lower(result.text)

\* t holds a tag: "<", one or more characters other than ">", then ">".
HasTag(t) ==
    \E i \in 1..Len(t) : \E j \in (i + 2)..Len(t) :
        /\ t[i] = "<"
        /\ t[j] = ">"
        /\ \A k \in (i + 1)..(j - 1) : t[k] # ">"

\* C29: the 'text' a Dolphin transcription returns holds no tag, and its
\* 'raw_text' is the string the backend produced, as the backend produced it.
C29_DolphinTexts ==
    (engine = "dolphin" /\ Succeeded) =>
        /\ ~HasTag(result.text)
        /\ result.raw_text \in BackendTexts

\* C31: for every engine variant, a call of transcribe leaves the engine's
\* configuration and client fields as they were before the call, whether it
\* succeeds or fails; here for the output bucket, the one field a transcribe
\* assigns: when the first call has returned it is still the configured one.
C31_EngineNotReconfigured ==
    Returned => output_bucket_name = cfg_output_bucket

\* C34: in the Salad engine a status query that fails (non-200 response)
\* counts as one of the max_retries attempts: no call issues more than
\* max_retries status queries, whatever the mix of failed and non-terminal
\* responses; max_retries such responses in a row give the error 'Job timed
\* out'; and a success status on any attempt after failed queries still
\* yields the transcript of the job.
C34_FailedQueryIsAnAttempt ==
    engine = "salad" =>
        /\ queries <= max_retries
        /\ queries = retry
        /\ (queries = max_retries /\ terminal \notin {"Completed", "Failed"}
              /\ ~failure.raised)
             => (Returned /\ result = SaladTimedOut)
        /\ (query_failed /\ terminal = "Completed" /\ Returned /\ ~failure.raised)
             => /\ ~HasKey(result, "error")
                /\ result.text = Get(job_status, "text", <<>>)

\* The last of the max_retries attempts succeeds after a failed query.
C34_Witness ==
    /\ engine = "salad"
    /\ query_failed
    /\ queries = max_retries
    /\ terminal = "Completed"
    /\ Returned
    /\ ~failure.raised
    /\ result.text = <<"H", "i">>

----------------------------------------------------------------------------
(* Properties of get_model and main *)

\* The command line was refused, or get_model or load() raised.
ConfigFailed == mpc = "usage" \/ init_error.raised

\* C14: a configuration failure (a name that is no engine, get_model or
\* load() raising) is fatal before any item: no test set is listed, nothing
\* is downloaded or transcribed, and no per-item record, dataset summary or
\* overall summary is written.
C14_ConfigFailureFatal ==
    ConfigFailed =>
        /\ mpc \in {"usage", "init_except", "exit"}
        /\ listed = <<>>
        /\ rpc = "idle"
        /\ hist = <<>>
        /\ json_files = <<>>
        /\ csv = <<>>
        /\ ~HasKey(summary, "num_files")
        /\ main_results = <<>>
        /\ ~HasKey(overall, "model")

\* main has returned after load() of a Salad engine without a key raised.
C14_Witness ==
    /\ mpc = "exit"
    /\ engine = "salad"
    /\ api_key = None
    /\ load_raised
    /\ init_error.raised
    /\ listed = <<>>

\* C15: get_model(name, config) returns an engine of the variant named by
\* name exactly when name is one of the six known identifiers; for any other
\* name it raises an error whose message lists all six names, and no engine
\* is constructed.
C15_GetModel ==
    mpc # "get_model" =>
        IF model_name \in Engines
        THEN /\ engine = model_name
             /\ init_error.raised => load_raised
        ELSE /\ engine = None
             /\ ~loaded /\ ~load_raised
             /\ init_error.raised
             /\ \A n \in Engines : n \in Range(init_error.msg)

\* get_model was called with a name that is no engine, and raised.
C15_Witness ==
    /\ model_name = "azure"
    /\ mpc = "exit"
    /\ engine = None
    /\ init_error.raised
    /\ "whisper" \in Range(init_error.msg)

----------------------------------------------------------------------------
(* Properties of the aggregators *)

HasBoth(r) == HasKey(r, "wer") /\ HasKey(r, "cer")

WithBoth(rs) == SelectSeq(rs, HasBoth)

ZeroSummary == [avg_wer |-> Zero, avg_cer |-> Zero, num_files |-> 0]

\* The arithmetic mean over the items that have both rates.
MeanOverBoth(rs) ==
    IF WithBoth(rs) = <<>> THEN ZeroSummary
    ELSE [avg_wer |-> FDiv(SumOf(WithBoth(rs), "wer"), Len(WithBoth(rs))),
          avg_cer |-> FDiv(SumOf(WithBoth(rs), "cer"), Len(WithBoth(rs))),
          num_files |-> Len(WithBoth(rs))]

\* C16: calculate_metrics averages over the items that have both wer and cer
\* only: the sums and the count it divides by, and num_files, leave out every
\* item that lacks one of them.
C16_AveragesOverScoredItems ==
    agg_metrics # NoSummary => agg_metrics = MeanOverBoth(agg_results)

\* C17: on the empty list, calculate_metrics returns and save_summary writes
\* avg_wer 0, avg_cer 0 and num_files 0, and neither raises.
C17_EmptyAggregation ==
    agg_results = <<>> =>
        /\ agg_metrics # NoSummary => agg_metrics = ZeroSummary
        /\ eval_summary # NoSummary => eval_summary = ZeroSummary
        /\ ~eval_raised

C17_Witness ==
    /\ agg_results = <<>>
    /\ agg_metrics = ZeroSummary
    /\ eval_summary = ZeroSummary

Permuted(rs, p) == [i \in 1..Len(rs) |-> rs[p[i]]]

\* C18: calculate_metrics returns the same avg_wer, avg_cer and num_files for
\* every permutation of the list it is given.
C18_OrderIndependent ==
    agg_metrics # NoSummary =>
        \A p \in Permutations(1..Len(agg_results)) :
            calculate_metrics(Permuted(agg_results, p)) = agg_metrics

----------------------------------------------------------------------------
(* Properties of save_result *)

\* C21: the wer save_result records is the edit distance between the words
\* of the (lower-cased) reference and hypothesis over the number of reference
\* words, the cer the same over their characters, and neither is negative.
C21_RatesAreEditDistance ==
    (sr_pc = "saved" /\ HasKey(sr_result, "wer")) =>
        \E ref \in {Lower(sr_ground_truth)} : \E hyp \in {Lower(sr_result.text)} :
            /\ sr_result.wer =
                  Float(EditDistance(Words(ref), Words(hyp)), Len(Words(ref)))
            /\ sr_result.cer =
                  Float(EditDistance(Strip(ref), Strip(hyp)), Len(Strip(ref)))
            /\ sr_result.wer[1] >= 0 /\ sr_result.wer[2] > 0
            /\ sr_result.cer[1] >= 0 /\ sr_result.cer[2] > 0

\* One word in three substituted: wer is 1/3, and cer 1/5.
C21_Witness ==
    /\ sr_pc = "saved"
    /\ sr_ground_truth = <<"a", " ", "b", " ", "a">>
    /\ HasKey(sr_result, "wer")
    /\ sr_result.text = <<"a", " ", "a", " ", "a">>
    /\ sr_result.wer = Float(1, 3)
    /\ sr_result.cer = Float(1, 5)

\* C22: once save_result has been called with an empty reference and a
\* result that has a text, it has recorded rates: 0 for an empty hypothesis,
\* else the number of words (wer) and of characters (cer) of the hypothesis.
C22_EmptyReference ==
    (sr_pc # "call" /\ sr_ground_truth = <<>> /\ HasKey(sr_result, "text")) =>
        /\ sr_pc = "saved"
        /\ HasKey(sr_result, "wer")
        /\ HasKey(sr_result, "cer")
        /\ sr_result.wer = Float(Len(Words(Lower(sr_result.text))), 1)
        /\ sr_result.cer = Float(Len(Strip(Lower(sr_result.text))), 1)

----------------------------------------------------------------------------
(* Properties of main over its test sets *)

\* process_dataset hands its result back to main.
DatasetReturns == mpc = "in_dataset" /\ mpc' = "datasets"

\* The entry main keeps for the test set that has just returned its summary.
OwnEntry == [test_set |-> listed[Len(listed)], metrics |-> summary]

\* C26: a test set whose audio listing or transcript listing is empty is
\* skipped: when it returns, no item of it has been touched, no summary of it
\* exists, and main adds no entry for it; and main still goes through every
\* test set it was asked for, each one that has listings getting its summary
\* and its entry.
C26_EmptyDatasetSkipped ==
    /\ [][(DatasetReturns /\ (audio_files = <<>> \/ ~have_transcripts)) =>
             /\ \A k \in Items : hist[k] = Untouched
             /\ json_files = <<>>
             /\ csv = <<>>
             /\ ~HasKey(summary, "num_files")
             /\ main_results' = main_results]_vars
    /\ [][(DatasetReturns /\ audio_files # <<>> /\ have_transcripts) =>
             /\ HasKey(summary, "num_files")
             /\ main_results' = Append(main_results, OwnEntry)]_vars
    /\ []((mpc = "exit" /\ loaded) => listed = Todo(test_set))

\* Both test sets were asked for; the first had nothing listed and has no
\* entry, the second was processed and is the one entry of the overall file.
C26_Witness ==
    /\ mpc = "exit"
    /\ listed = <<"test-clean", "test-other">>
    /\ Len(main_results) = 1
    /\ main_results[1].test_set = "test-other"
    /\ HasKey(overall, "results")
    /\ Len(overall.results) = 1

\* C27: the overall file holds, under each processed test set's name, the
\* summary that test set returned (num_files, total_duration, avg_wer and
\* avg_cer), unchanged from then on; there is one entry per processed test
\* set and none for a skipped one.
C27_StructuralMerge ==
    /\ [](HasKey(overall, "results") =>
             /\ overall.model = model_name
             /\ overall.results = main_results)
    /\ [](\A i \in 1..Len(main_results) : \A j \in 1..Len(main_results) :
             main_results[i].test_set = main_results[j].test_set => i = j)
    /\ [][DatasetReturns =>
             main_results' = IF rpc = "done"
                             THEN Append(main_results, OwnEntry)
                             ELSE main_results]_vars
    /\ [][\A i \in 1..Len(main_results) :
             /\ i <= Len(main_results')
             /\ main_results'[i] = main_results[i]]_vars
    /\ [](\A i \in 1..Len(main_results) :
             DOMAIN main_results[i].metrics =
                 {"num_files", "total_duration", "avg_wer", "avg_cer"})

\* Both test sets were processed: the overall file has the two entries, in
\* the order of processing.
C27_Witness ==
    /\ mpc = "exit"
    /\ HasKey(overall, "results")
    /\ Len(overall.results) = 2
    /\ overall.results[1].test_set = "test-clean"
    /\ overall.results[2].test_set = "test-other"
    /\ overall.results[1].metrics.num_files = 1

\* C30: once main is over, the exit status is a failure status exactly when
\* the configuration failed before any processing (a name that is no engine,
\* or the construction or the load of the engine raising).
C30_ExitStatus ==
    mpc \in {"usage", "exit"} => ((ExitStatus # 0) <=> ConfigFailed)

----------------------------------------------------------------------------
(* Properties of the standalone evaluator, checked under EvalSpec *)

\* The ids that have a reference.
RefIds == { references[i].file_id : i \in DOMAIN references }

\* The ids present in both mappings.
InBoth == RefIds \cap DOMAIN hypotheses

\* The entries calculate_metrics returned for an id.
EntriesOf(id) == { i \in DOMAIN ev_results : ev_results[i].file_id = id }

\* The arithmetic mean of the values under key k, as a float.
MeanOf(rs, k) == FDiv(SumOf(rs, k), Len(rs))

\* C32: evaluate.calculate_metrics returns exactly one scored entry for each
\* id present in both mappings, made of that id's reference and hypothesis,
\* and no entry for an id present in one of them only; save_summary reports
\* num_files equal to the number of entries, and avg_wer and avg_cer equal to
\* the arithmetic means of the entries' rates.
C32_JoinByFileId ==
    /\ ev_pc \in {"scored", "saved"} =>
          /\ \A id \in FileIds :
                 Cardinality(EntriesOf(id)) = IF id \in InBoth THEN 1 ELSE 0
          /\ Len(ev_results) = Cardinality(InBoth)
          /\ \A i \in DOMAIN ev_results :
                 /\ HasBoth(ev_results[i])
                 /\ ev_results[i].hypothesis = hypotheses[ev_results[i].file_id]
                 /\ \E j \in DOMAIN references :
                        /\ references[j].file_id = ev_results[i].file_id
                        /\ references[j].reference = ev_results[i].reference
    /\ ev_pc = "saved" =>
          /\ ev_summary.num_files = Len(ev_results)
          /\ ev_results # <<>> =>
                 /\ ev_summary.avg_wer = MeanOf(ev_results, "wer")
                 /\ ev_summary.avg_cer = MeanOf(ev_results, "cer")

\* Two ids are in both mappings, one has a reference only and one a
\* hypothesis only; the two entries have different rates.
C32_Witness ==
    /\ ev_pc = "saved"
    /\ Len(ev_results) = 2
    /\ RefIds \ DOMAIN hypotheses # {}
    /\ DOMAIN hypotheses \ RefIds # {}
    /\ ev_results[1].wer # ev_results[2].wer
    /\ ev_summary.num_files = 2

----------------------------------------------------------------------------
(* Properties of clean_hypothesis_text, checked under CleanSpec *)

\* C37: DolphinModel.clean_hypothesis_text is idempotent; cleaning a cleaned
\* text gives the cleaned text, for every input, nested or unbalanced angle
\* brackets included.
C37_CleanIdempotent ==
    ct_pc = "twice" => ct_twice = ct_once

\* '<a<a>a>': a tag inside a pair of angle brackets; the first pass removes
\* '<a<a>' and leaves 'a>'.
C37_Witness ==
    /\ ct_pc = "twice"
    /\ ct_text = <<"<", "a", "<", "a", ">", "a", ">">>
    /\ ct_once = <<"a", ">">>
    /\ ct_twice = ct_once

====
